---- MODULE Spec2Model ----
(***************************************************************************)
(* On-duty scheduler: the Duty Assignment and Fairness Balancing Engine of *)
(* src/src/scheduler.py, with the Employee runtime of src/src/employee.py  *)
(* and the duty classifier of src/src/calendar_utils.py.                   *)
(*                                                                         *)
(* Calendar.  Dates are the integers 1..MaxMonths*DaysPerMonth; month m is *)
(* the block of DaysPerMonth consecutive dates (m-1)*DaysPerMonth+1 ..     *)
(* m*DaysPerMonth and date 1 is a Monday (as 2025-09-01 is).  ISO strings  *)
(* compare like the dates they denote, so integer order is ISO order.      *)
(*                                                                         *)
(* Employees.  An employee is identified by its name; names are the        *)
(* integers 1..NumEmployees and integer order is name order.  The roster   *)
(* (self.employees) is a sequence of names in file order.                  *)
(*                                                                         *)
(* Points.  The code keeps points as floats.  The model keeps them as      *)
(* exact integers in units of 1/PointUnit of a point, PointUnit =          *)
(* 2 * (number of employees) * (days of the period), which makes every     *)
(* weight (a multiple of 0.5) and every availability compensation          *)
(* (10 * (mean ratio - own ratio)) an integer.  Comparisons against the    *)
(* tolerance 0.1 and against means are cross-multiplied.                   *)
(***************************************************************************)
EXTENDS Integers, Sequences, FiniteSets, TLC

\* ---------------------------------------------------------------- bounds
NumEmployees == 3
DaysPerMonth == 6
MaxMonths == 2
\* BlockedDaysManager: the calls of one session and the dates they name.
MaxCalls == 3
MaxManagerDate == 2
\* _perform_swap on its own: the moves made on one schedule.
MaxSwaps == 2

\* ------------------------------------------------------ program constants
\* WEIGHTS, in half points (WD 1.0, Th 1.5, WE 2.0, B 0.5, HO 3.0).
WEIGHTS == [WD |-> 2, Th |-> 3, WE |-> 4, B |-> 1, HO |-> 6]
\* BALANCE_TOLERANCE = 0.1 = 1 / TOLERANCE_INV of a point.
TOLERANCE_INV == 10
\* _optimize_balance(..., max_iterations: int = 50): the default, which is
\* what assign_month calls it with.
DefaultMaxIterations == 50
\* availability < avg_availability * 0.8, as 10 * availability < 8 * avg.
COMPENSATION_THRESHOLD_TENTHS == 8
\* compensation = (avg_availability - availability) * 10
COMPENSATION_SCALE == 10

Names == 1..NumEmployees
MonthIds == 1..MaxMonths
MonthFirst(m) == (m - 1) * DaysPerMonth + 1
MonthLast(m) == m * DaysPerMonth
\* iter_month: the dates of month m; the callers walk them in increasing order.
iter_month(m) == MonthFirst(m)..MonthLast(m)
AllDates == 1..(MaxMonths * DaysPerMonth)
\* date.weekday(): Mon = 0 .. Sun = 6
weekday(d) == (d - 1) % 7
\* COMPANY_WEEKENDS = ["2025-11-16"], a Sunday: here the first Sunday.
COMPANY_WEEKENDS == {d \in AllDates : d <= 7 /\ weekday(d) = 6}
\* A string date.fromisoformat rejects.
BadDate == 0
\* The value None.
None == 0

\* ------------------------------------------------------------- utilities
RECURSIVE SumSeq(_)
SumSeq(s) == IF s = <<>> THEN 0 ELSE Head(s) + SumSeq(Tail(s))

RECURSIVE SumSet(_, _)
SumSet(S, f) ==
  IF S = {} THEN 0
  ELSE LET x == CHOOSE y \in S : TRUE IN f[x] + SumSet(S \ {x}, f)

SeqMin(s) == CHOOSE x \in {s[i] : i \in DOMAIN s} : \A i \in DOMAIN s : x <= s[i]
Range(s) == {s[i] : i \in DOMAIN s}
EmptyMap == <<>>

VARIABLES
  roster,        \* self.employees: sequence of employee names, file order
  raw,           \* name -> [blocked_days, blocked_ranges, observes_sabbath]
  holidays,      \* dates for which holiday_manager.is_holiday is truthy
  months,        \* the months argument of assign_months
  company_weekends, \* the configured COMPANY_WEEKENDS list, as a set of dates
  max_iterations, \* the max_iterations argument of _optimize_balance
  compensation,  \* name -> compensation subtracted at period start
  summary,       \* the rows summarize_period returned
  blocked_days,  \* name -> derived blocked set (Employee.blocked_days)
  assignments,   \* name -> (date -> duty type)   (Employee.assignments)
  points,        \* name -> points, in 1/PointUnit    (Employee.points)
  counts,        \* name -> (duty type -> counter)    (Employee.counts)
  pc,            \* position in assign_months / assign_month
  mi,            \* index into months of the month being built
  cur,           \* the date of the greedy loop
  cands,         \* cands of the current greedy iteration
  p,             \* the primary picked for the current date
  day_rec,       \* day_rec of the current greedy iteration
  out,           \* the schedule being built: date -> (duty type -> name)
  start_pts,     \* start_pts of _optimize_balance
  iter,          \* iterations of the balancing loop executed
  result,        \* result of assign_months: month -> schedule
  employees,     \* BlockedDaysManager.employees: the list of employee dicts
  employees_file, \* the list of dicts last written to the employees file
  call,          \* the manager call made last and its arguments
  returned,      \* what that call returned
  calls,         \* the number of manager calls made
  schedule,      \* ManualSwapManager.schedule: date -> (duty type -> name)
  schedule_file, \* the schedule last written to the schedule file
  saves,         \* the number of _save_schedule calls made
  notified       \* the number of _send_swap_notifications calls made

vars == <<roster, raw, holidays, months, company_weekends, max_iterations,
          compensation, summary, blocked_days, assignments, points, counts,
          pc, mi, cur, cands, p, day_rec, out, start_pts, iter, result,
          employees, employees_file, call, returned, calls,
          schedule, schedule_file, saves, notified>>

\* What a scheduling run is given and never writes.
config == <<roster, raw, holidays, months, company_weekends, max_iterations>>

\* The state of a ManualSwapManager.
swapper == <<schedule, schedule_file, saves, notified>>

\* The state of a BlockedDaysManager or a ManualSwapManager, which no
\* scheduling run touches.
manager == <<employees, employees_file, call, returned, calls, swapper>>

\* The state of a scheduling run, which no BlockedDaysManager call touches.
scheduling == <<config, compensation, summary, blocked_days, assignments,
                points, counts, pc, mi, cur, cands, p, day_rec, out,
                start_pts, iter, result>>

\* The names of the loaded employees.
Employees == Range(roster)

\* ------------------------------------------------------------- Employee
\* Employee.__init__ / reset_runtime: counts has no "HO" key.
InitCounts == [t \in {"WD", "Th", "WE", "B"} |-> 0]

\* The try block of prepare_for_month raises for the entry rng, and the
\* loop continues with the next entry: rng["start"] or rng["end"] is
\* missing (KeyError) or is a string date.fromisoformat rejects (ValueError).
Malformed(rng) ==
  \/ "start" \notin DOMAIN rng
  \/ "end" \notin DOMAIN rng
  \/ rng.start = BadDate
  \/ rng.end = BadDate

\* The mutation without "if end < start: start, end = end, start": the
\* while loop adds nothing for a range given in reverse.
ExpandRange_NoSwap(rng) ==
  IF Malformed(rng) THEN {} ELSE rng.start..rng.end

\* The mutation that catches the exception of the end date only after the
\* start date was added.
ExpandRange_StartKept(rng) ==
  IF "start" \in DOMAIN rng /\ rng.start # BadDate /\ Malformed(rng)
  THEN {rng.start}
  ELSE IF Malformed(rng) THEN {}
  ELSE IF rng.end < rng.start THEN rng.end..rng.start
  ELSE rng.start..rng.end

\* The dates one raw range contributes in prepare_for_month: nothing for a
\* malformed entry, otherwise min..max inclusive.
ExpandRange(rng) ==
  IF Malformed(rng) THEN {}
  ELSE IF rng.end < rng.start THEN rng.end..rng.start
  ELSE rng.start..rng.end

\* The mutation that takes Saturday alone for the Sabbath.
SabbathDays_SaturdayOnly(m) == {d \in iter_month(m) : weekday(d) = 5}

\* The Fridays and Saturdays of the target month.
SabbathDays(m) == {d \in iter_month(m) : weekday(d) \in {4, 5}}

\* The mutation that adds to the set of the previous call instead of
\* starting again from the explicit dates.
prepare_for_month_Accumulate(e, m) ==
  blocked_days[e] \cup raw[e].blocked_days
    \cup UNION {ExpandRange(raw[e].blocked_ranges[i]) : i \in DOMAIN raw[e].blocked_ranges}
    \cup (IF raw[e].observes_sabbath THEN SabbathDays(m) ELSE {})

\* Employee.prepare_for_month: the derived blocked set for month m.
prepare_for_month(e, m) ==
  raw[e].blocked_days
    \cup UNION {ExpandRange(raw[e].blocked_ranges[i]) : i \in DOMAIN raw[e].blocked_ranges}
    \cup (IF raw[e].observes_sabbath THEN SabbathDays(m) ELSE {})

\* The mutation that forgets the blocked set.
is_available_NoBlocked(e, d) == d \notin DOMAIN assignments[e]

\* The mutation that forgets the assignments map.
is_available_NoAssigned(e, d) == d \notin blocked_days[e]

\* Employee.is_available
is_available(e, d) == d \notin blocked_days[e] /\ d \notin DOMAIN assignments[e]

\* --------------------------------------------------------------- points
TotalDays == Len(months) * DaysPerMonth
PointUnit == 2 * Len(roster) * TotalDays
\* A weight of WEIGHTS, in 1/PointUnit of a point.
Weight(duty) == WEIGHTS[duty] * Len(roster) * TotalDays

\* _calculate_availability_weights: available_days of e over the period
\* (availability_pct = AvailableDays / TotalDays).
AvailableDays(e) ==
  SumSeq([i \in DOMAIN months |->
            Cardinality(iter_month(months[i]) \ prepare_for_month(e, months[i]))])

SumAvailable == SumSeq([i \in DOMAIN roster |-> AvailableDays(roster[i])])

\* (avg_availability - availability) * 10 for e, in 1/PointUnit of a point.
Shortfall(e) ==
  2 * COMPENSATION_SCALE * (SumAvailable - Len(roster) * AvailableDays(e))

\* _apply_availability_weighting in exact arithmetic: the compensation of e
\* in 1/PointUnit of a point; 0 when availability >= 0.8 * avg_availability.
Compensation(e) ==
  IF 10 * Len(roster) * AvailableDays(e) < COMPENSATION_THRESHOLD_TENTHS * SumAvailable
  THEN Shortfall(e)
  ELSE 0

\* availability is exactly 0.8 * avg_availability (and not 0).
AtThreshold(e) ==
  /\ 10 * Len(roster) * AvailableDays(e) = COMPENSATION_THRESHOLD_TENTHS * SumAvailable
  /\ AvailableDays(e) > 0

\* _apply_availability_weighting as the code computes it, in floats: the
\* compensations it can subtract from e.  availability < avg_availability
\* * 0.8 agrees with the exact comparison except when the two sides are
\* exactly equal, where the rounding of the quotients and of the product
\* decides (with ratios 30/30, 25/30 and 20/30 the product is
\* 0.6666666666666667 > 20/30 = 0.6666666666666666 and the third employee
\* is compensated; with 12/12 and 8/12 the two sides are equal doubles).
Compensations(e) ==
  IF AtThreshold(e) THEN {0, Shortfall(e)} ELSE {Compensation(e)}

\* ---------------------------------------------------------------- inputs
\* The raw constraint records an employee is loaded with.
EmployeeConfigs ==
  { [blocked_days |-> {}, blocked_ranges |-> <<>>, observes_sabbath |-> FALSE],
    [blocked_days |-> {2},
     blocked_ranges |-> <<[start |-> BadDate, end |-> 3]>>,
     observes_sabbath |-> TRUE],
    [blocked_days |-> {},
     blocked_ranges |-> <<[start |-> DaysPerMonth, end |-> 1]>>,
     observes_sabbath |-> FALSE] }

\* Rosters: the first k names, in name order and in reverse name order.
Rosters ==
  { [i \in 1..k |-> i] : k \in 0..NumEmployees } \cup
  { [i \in 1..k |-> k + 1 - i] : k \in 0..NumEmployees }

HolidayChoices == { {}, {4} }

\* The COMPANY_WEEKENDS list is configuration: the shipped list (one
\* Sunday) and a list that designates a Thursday.
CompanyWeekendChoices == { COMPANY_WEEKENDS, {4} }

\* months arguments: the one-month periods and the periods of two
\* consecutive months, in ascending and in descending order.
MonthLists ==
  { <<a>> : a \in MonthIds } \cup
  { <<a, a + 1>> : a \in MonthIds } \cup
  { <<a, a - 1>> : a \in MonthIds }

ValidMonthList(s) == \A i \in DOMAIN s : s[i] \in MonthIds

\* No ManualSwapManager was constructed and no schedule file written.
NoSwapper ==
  /\ schedule = EmptyMap
  /\ schedule_file = EmptyMap
  /\ saves = 0
  /\ notified = 0

\* No BlockedDaysManager and no ManualSwapManager was constructed.
NoManager ==
  /\ employees = <<>>
  /\ employees_file = <<>>
  /\ call = <<>>
  /\ returned = FALSE
  /\ calls = 0
  /\ NoSwapper

\* The runtime state of freshly constructed Employee objects and of a
\* Scheduler on which nothing was called yet.
Constructed ==
  /\ compensation = [e \in Employees |-> 0]
  /\ summary = <<>>
  /\ blocked_days = [e \in Employees |-> {}]
  /\ assignments = [e \in Employees |-> EmptyMap]
  /\ points = [e \in Employees |-> 0]
  /\ counts = [e \in Employees |-> InitCounts]
  /\ pc = "start"
  /\ mi = 1
  /\ cur = 0
  /\ cands = <<>>
  /\ p = None
  /\ day_rec = EmptyMap
  /\ out = EmptyMap
  /\ start_pts = [e \in Employees |-> 0]
  /\ iter = 0
  /\ result = EmptyMap

\* State after Scheduler() is constructed from the loaded records.
Init ==
  /\ roster \in Rosters
  /\ raw \in [Employees -> EmployeeConfigs]
  /\ holidays \in HolidayChoices
  /\ months \in {s \in MonthLists : ValidMonthList(s)}
  /\ company_weekends \in CompanyWeekendChoices
  /\ max_iterations = DefaultMaxIterations
  /\ NoManager
  /\ Constructed

\* assign_months up to the month loop: reset_runtime for every employee,
\* _calculate_availability_weights (which leaves blocked_days prepared for
\* the last month of the list), _apply_availability_weighting.
AssignMonthsStart ==
  /\ pc = "start"
  /\ assignments' = [e \in Employees |-> EmptyMap]
  /\ counts' = [e \in Employees |-> InitCounts]
  /\ blocked_days' = [e \in Employees |-> prepare_for_month(e, months[Len(months)])]
  /\ \E c \in [Employees -> UNION {Compensations(e) : e \in Employees}] :
       /\ \A e \in Employees : c[e] \in Compensations(e)
       /\ compensation' = c
       /\ points' = [e \in Employees |-> 0 - c[e]]
  /\ result' = EmptyMap
  /\ mi' = 1
  /\ pc' = "month"
  /\ UNCHANGED <<config, manager, summary, cur, cands, p, day_rec, out, start_pts, iter>>

\* The mutation of assign_month without the empty-roster return.
PrepareMonth_NoEmptyReturn ==
  /\ pc = "month"
  /\ blocked_days' = [e \in Employees |-> prepare_for_month(e, months[mi])]
  /\ out' = EmptyMap
  /\ cur' = MonthFirst(months[mi])
  /\ pc' = "greedy"
  /\ UNCHANGED <<config, manager, compensation, summary, assignments, points, counts, mi,
                 cands, p, day_rec, start_pts, iter, result>>

\* One pass of the month loop up to the greedy loop: prepare_for_month for
\* every employee, then assign_month returns {} at once when the roster is
\* empty and otherwise starts _initial_assignment with an empty out.
PrepareMonth ==
  /\ pc = "month"
  /\ blocked_days' = [e \in Employees |-> prepare_for_month(e, months[mi])]
  /\ out' = EmptyMap
  /\ cur' = MonthFirst(months[mi])
  /\ pc' = IF roster = <<>> THEN "return" ELSE "greedy"
  /\ UNCHANGED <<config, manager, compensation, summary, assignments, points, counts, mi, cands, p, day_rec,
                 start_pts, iter, result>>

\* ------------------------------------------------------------ classifier
\* The mutation that takes Saturday and Sunday for the weekend.
classify_duty_SatSun(d) ==
  IF d \in holidays THEN "HO"
  ELSE IF d \in company_weekends THEN "WE"
  ELSE IF weekday(d) = 3 THEN "Th"
  ELSE IF weekday(d) \in {5, 6} THEN "WE"
  ELSE "WD"

\* The mutation that tests Thursday before the company weekends.
classify_duty_ThursdayFirst(d) ==
  IF d \in holidays THEN "HO"
  ELSE IF weekday(d) = 3 THEN "Th"
  ELSE IF d \in company_weekends THEN "WE"
  ELSE IF weekday(d) \in {4, 5} THEN "WE"
  ELSE "WD"

\* classify_duty: holiday > company weekend > Thursday > Fri/Sat > weekday.
classify_duty(d) ==
  IF d \in holidays THEN "HO"
  ELSE IF d \in company_weekends THEN "WE"
  ELSE IF weekday(d) = 3 THEN "Th"
  ELSE IF weekday(d) \in {4, 5} THEN "WE"
  ELSE "WD"

\* ---------------------------------------------------------------- greedy
\* Scheduler._eligible: the available employees, in roster order.
_eligible(d) == SelectSeq(roster, LAMBDA e : is_available(e, d))

\* n^2 times the variance of tmp_points when cand gets duty_weight
\* (the loop body of _pick_best_for_balance).
SimulatedVar(cand, duty_weight) ==
  LET tmp_points == [i \in DOMAIN roster |->
                       points[roster[i]] + (IF roster[i] = cand THEN duty_weight ELSE 0)]
      squares == [i \in DOMAIN roster |-> tmp_points[i] * tmp_points[i]]
  IN  Len(roster) * SumSeq(squares) - SumSeq(tmp_points) * SumSeq(tmp_points)

\* The float arithmetic of _pick_best_for_balance is exact, so that equal
\* variances compare equal, when no compensation was applied (all points
\* are small multiples of 0.5) and the mean divides by a power of two.
FloatExact ==
  /\ Len(roster) \in {1, 2, 4, 8}
  /\ \A e \in Employees : compensation[e] = 0

\* The indices of the candidates of least exact simulated variance.
LeastVar(candidates, duty_weight) ==
  { i \in DOMAIN candidates :
      \A j \in DOMAIN candidates :
        SimulatedVar(candidates[i], duty_weight)
          <= SimulatedVar(candidates[j], duty_weight) }

\* The mutation "var <= best_var": the last candidate of least variance.
_pick_best_for_balance_Last(candidates, duty_weight) ==
  { candidates[i] : i \in
      { i \in LeastVar(candidates, duty_weight) :
          \A j \in LeastVar(candidates, duty_weight) : j <= i } }

\* The mutation that skips the variance loop ("return candidates[0]").
_pick_best_for_balance_FirstCandidate(candidates, duty_weight) == {candidates[1]}

\* Scheduler._pick_best_for_balance: the values it can return.  The loop
\* keeps the first candidate whose float var is strictly below best_var.
\* Candidates whose exact variances differ are ordered by them.  Candidates
\* whose exact variances are equal (those with equal points) get equal float
\* variances when the arithmetic is exact, and the first of them in list
\* order is returned; otherwise their float variances differ by rounding,
\* because the squared deviations are summed in roster order (with points
\* (0.0, 1.5, 0.0) and weight 1.0 the third employee's var is the smaller
\* double), and any of them can be the one returned.
_pick_best_for_balance(candidates, duty_weight) ==
  IF FloatExact
  THEN { candidates[i] : i \in
           { i \in LeastVar(candidates, duty_weight) :
               \A j \in LeastVar(candidates, duty_weight) : i <= j } }
  ELSE { candidates[i] : i \in LeastVar(candidates, duty_weight) }

\* The mutation that forgets exclude_names.
PickPool_NoExclude(candidates, exclude_names) == candidates

\* pool of _pick_lowest_points
PickPool(candidates, exclude_names) ==
  SelectSeq(candidates, LAMBDA e : e \notin exclude_names)

\* at_min of _pick_lowest_points: within BALANCE_TOLERANCE of the minimum.
AtMin(pool) ==
  LET min_points == SeqMin([i \in DOMAIN pool |-> points[pool[i]]])
  IN  SelectSeq(pool, LAMBDA e :
        TOLERANCE_INV * points[e] <= TOLERANCE_INV * min_points + PointUnit)

\* The mutation that returns the first of the pool whatever its points.
_pick_lowest_points_First(candidates, duty_weight, exclude_names) ==
  LET pool == PickPool(candidates, exclude_names)
  IN  IF pool = <<>> THEN {None} ELSE {pool[1]}

\* Scheduler._pick_lowest_points: the values it can return (None when the
\* pool is empty).
_pick_lowest_points(candidates, duty_weight, exclude_names) ==
  LET pool == PickPool(candidates, exclude_names)
  IN  IF pool = <<>> THEN {None}
      ELSE IF Len(AtMin(pool)) > 1
           THEN _pick_best_for_balance(AtMin(pool), duty_weight)
           ELSE {AtMin(pool)[1]}

\* Employee.add_assignment raises KeyError at counts[duty_type] += 1 when
\* the duty type is no key of counts.
AddAssignmentRaises(duty_type) == duty_type \notin DOMAIN InitCounts

\* The mutation that adds the default weight 1.0 whatever the duty type.
AddedPoints_Unweighted(e, duty_type) ==
  [points EXCEPT ![e] = @ + Weight("WD")]

\* Employee.add_assignment, the three fields after it returns.
AddedAssignments(e, d, duty_type) ==
  [assignments EXCEPT ![e] = (d :> duty_type) @@ @]
AddedCounts(e, duty_type) ==
  [counts EXCEPT ![e][duty_type] = @ + 1]
AddedPoints(e, duty_type) ==
  [points EXCEPT ![e] = @ + Weight(duty_type)]

\* The mutation that continues without out[iso] = day_rec.
LeaveUnassigned_Skip ==
  /\ cur' = cur + 1
  /\ day_rec' = EmptyMap
  /\ p' = None
  /\ UNCHANGED <<out, assignments, counts, points, pc>>

\* _initial_assignment when _pick_lowest_points returns None for the
\* primary: out[iso] = {} and continue with the next date.
LeaveUnassigned ==
  /\ out' = (cur :> EmptyMap) @@ out
  /\ cur' = cur + 1
  /\ day_rec' = EmptyMap
  /\ p' = None
  /\ UNCHANGED <<assignments, counts, points, pc>>

\* The mutation that looks for a backup whatever the duty type.
NeedsBackup_Always(duty) == TRUE

\* if duty == "WE": the date gets a backup.
NeedsBackup(duty) == duty = "WE"

\* _initial_assignment, one date: classify, compute cands, pick the primary.
\* No eligible employee: out[iso] = {} and continue.  A holiday primary:
\* add_assignment stores the date in assignments and then raises KeyError,
\* which leaves assign_months.
AssignPrimary ==
  /\ pc = "greedy"
  /\ cur <= MonthLast(months[mi])
  /\ LET duty == classify_duty(cur)
         cs == _eligible(cur)
     IN  \E pick \in _pick_lowest_points(cs, Weight(duty), {}) :
         /\ cands' = cs
         /\ IF pick = None
            THEN LeaveUnassigned
            ELSE IF AddAssignmentRaises(duty)
            THEN /\ assignments' = AddedAssignments(pick, cur, duty)
                 /\ p' = pick
                 /\ day_rec' = EmptyMap
                 /\ pc' = "raised"
                 /\ UNCHANGED <<counts, points, out, cur>>
            ELSE /\ assignments' = AddedAssignments(pick, cur, duty)
                 /\ counts' = AddedCounts(pick, duty)
                 /\ points' = AddedPoints(pick, duty)
                 /\ p' = pick
                 /\ day_rec' = (duty :> pick)
                 /\ IF NeedsBackup(duty)
                    THEN pc' = "backup" /\ UNCHANGED <<out, cur>>
                    ELSE /\ out' = (cur :> (duty :> pick)) @@ out
                         /\ cur' = cur + 1
                         /\ UNCHANGED pc
  /\ UNCHANGED <<config, manager, compensation, summary, blocked_days, mi, start_pts, iter, result>>

\* _initial_assignment, the weekend backup of the current date, then
\* out[iso] = day_rec.
AssignBackup ==
  /\ pc = "backup"
  /\ \E b \in _pick_lowest_points(cands, Weight("B"), {p}) :
         IF b = None
         THEN /\ out' = (cur :> day_rec) @@ out
              /\ UNCHANGED <<assignments, counts, points, day_rec>>
         ELSE /\ assignments' = AddedAssignments(b, cur, "B")
              /\ counts' = AddedCounts(b, "B")
              /\ points' = AddedPoints(b, "B")
              /\ day_rec' = ("B" :> b) @@ day_rec
              /\ out' = (cur :> day_rec') @@ out
  /\ cur' = cur + 1
  /\ pc' = "greedy"
  /\ UNCHANGED <<config, manager, compensation, summary, blocked_days, mi, cands, p, start_pts, iter, result>>

\* assign_month between the phases: _initial_assignment returns and
\* _optimize_balance takes its start_pts snapshot.
OptimizeBalanceStart ==
  /\ pc = "greedy"
  /\ cur > MonthLast(months[mi])
  /\ start_pts' = points
  /\ iter' = 0
  /\ pc' = "balance"
  /\ UNCHANGED <<config, manager, compensation, summary, blocked_days, assignments, points, counts, mi, cur,
                 cands, p, day_rec, out, result>>

\* ------------------------------------------------------------- balancing
\* The mutation that balances cumulative points (no snapshot subtracted).
month_points_Cumulative(e) == points[e]

\* month_points of _optimize_balance: points gained since the start_pts
\* snapshot.
month_points(e) == points[e] - start_pts[e]

\* n times sse(points) of _optimize_balance, for pts a function on Employees:
\* n * sum((p - mean)^2) = n * sum(p^2) - (sum p)^2.
SSE(pts) ==
  Len(roster) * SumSet(Employees, [e \in Employees |-> pts[e] * pts[e]])
    - SumSet(Employees, pts) * SumSet(Employees, pts)

MonthPts == [e \in Employees |-> month_points(e)]

\* [n for n, p in pts.items() if p > avg + BALANCE_TOLERANCE / k]
OverBy(k) ==
  SelectSeq(roster, LAMBDA e :
    k * TOLERANCE_INV * Len(roster) * month_points(e)
      > k * TOLERANCE_INV * SumSet(Employees, MonthPts) + Len(roster) * PointUnit)

\* [n for n, p in pts.items() if p < avg - BALANCE_TOLERANCE / k]
UnderBy(k) ==
  SelectSeq(roster, LAMBDA e :
    k * TOLERANCE_INV * Len(roster) * month_points(e)
      < k * TOLERANCE_INV * SumSet(Employees, MonthPts) - Len(roster) * PointUnit)

\* list.sort(key = ...): stable, ascending in key[x].
RECURSIVE StableSort(_, _)
StableSort(s, key) ==
  IF s = <<>> THEN <<>>
  ELSE LET i0 == CHOOSE i \in DOMAIN s :
                   /\ \A j \in DOMAIN s : key[s[i]] <= key[s[j]]
                   /\ \A j \in 1..(i - 1) : key[s[j]] > key[s[i]]
       IN  <<s[i0]>> \o StableSort(SubSeq(s, 1, i0 - 1) \o SubSeq(s, i0 + 1, Len(s)), key)

\* sorted(schedule.keys())
RECURSIVE SortedSeq(_)
SortedSeq(S) ==
  IF S = {} THEN <<>>
  ELSE LET x == CHOOSE y \in S : \A z \in S : y <= z
       IN  <<x>> \o SortedSeq(S \ {x})

\* over and under of one iteration, after the retry with the tolerance
\* divided by three and after the two sorts.
over ==
  LET k == IF OverBy(1) = <<>> \/ UnderBy(1) = <<>> THEN 3 ELSE 1
  IN  StableSort(OverBy(k), [e \in Employees |-> 0 - month_points(e)])

under ==
  LET k == IF OverBy(1) = <<>> \/ UnderBy(1) = <<>> THEN 3 ELSE 1
  IN  StableSort(UnderBy(k), [e \in Employees |-> month_points(e)])

\* feasible(day, duty, to_name) of _optimize_balance
feasible(day, duty, to_name) ==
  /\ day \notin blocked_days[to_name]
  /\ to_name \notin Range(out[day])
  /\ day \notin DOMAIN assignments[to_name]

\* The entries of schedule[d] held by name, in dict order (the primary was
\* inserted before the backup), as <<day, duty, weight>>.
HoldingsOn(name, d) ==
  LET prim == SortedSeq({i \in 1..1 : \E t \in DOMAIN out[d] \ {"B"} : out[d][t] = name})
      primDuty == CHOOSE t \in DOMAIN out[d] \ {"B"} : out[d][t] = name
  IN  (IF prim # <<>> THEN <<<<d, primDuty, Weight(primDuty)>>>> ELSE <<>>)
        \o (IF "B" \in DOMAIN out[d] /\ out[d]["B"] = name
            THEN <<<<d, "B", Weight("B")>>>> ELSE <<>>)

RECURSIVE HoldingsOver(_, _)
HoldingsOver(name, days) ==
  IF days = <<>> THEN <<>>
  ELSE HoldingsOn(name, Head(days)) \o HoldingsOver(name, Tail(days))

\* holdings(name) of _optimize_balance: heavier duties first, stable.
holdings(name) ==
  LET items == HoldingsOver(name, SortedSeq(DOMAIN out))
  IN  StableSort(items, [h \in Range(items) |-> 0 - h[3]])

\* delta of moving weight w from o to u: n * (sse(sim) - base_sse).
MoveDelta(o, u, w) ==
  SSE([MonthPts EXCEPT ![o] = @ - w, ![u] = @ + w]) - SSE(MonthPts)

\* The moves the two inner loops examine for o, in the order they examine
\* them, each as <<delta, day, duty, to_name>>.
RECURSIVE MovesOver(_, _)
MovesOver(o, hs) ==
  IF hs = <<>> THEN <<>>
  ELSE LET h == Head(hs)
           feasibles == SelectSeq(under, LAMBDA u : feasible(h[1], h[2], u))
       IN  [i \in DOMAIN feasibles |->
              <<MoveDelta(o, feasibles[i], h[3]), h[1], h[2], feasibles[i]>>]
             \o MovesOver(o, Tail(hs))

\* best for o: the first examined move of strictly least delta, or <<>>
\* for None.
BestMove(o) ==
  LET moves == MovesOver(o, holdings(o))
  IN  IF moves = <<>> THEN <<>>
      ELSE moves[CHOOSE i \in DOMAIN moves :
                   /\ \A j \in DOMAIN moves : moves[i][1] <= moves[j][1]
                   /\ \A j \in 1..(i - 1) : moves[j][1] > moves[i][1]]

\* The overloaded employees whose best move strictly improves, in the order
\* of over; the loop applies the move of the first of them.
Improvers == SelectSeq(over, LAMBDA o : BestMove(o) # <<>> /\ BestMove(o)[1] < 0)

\* The mutation of _perform_swap that stores the moved duty as a weekday
\* duty of the target.
SwappedSchedule_AsWeekday(date_str, duty_type, to_emp) ==
  [d \in DOMAIN out |->
     IF d = date_str
     THEN [t \in (DOMAIN out[d] \ {duty_type}) \cup {"WD"} |->
             IF t = "WD" THEN to_emp ELSE out[d][t]]
     ELSE out[d]]

\* _perform_swap(schedule, date_str, duty_type, from_emp, to_emp): the
\* four pieces of state after it.
SwappedSchedule(date_str, duty_type, to_emp) ==
  [out EXCEPT ![date_str] = (duty_type :> to_emp) @@ @]

SwappedAssignments(date_str, duty_type, from_emp, to_emp) ==
  LET removed == [assignments EXCEPT ![from_emp] =
                    [d \in DOMAIN @ \ {date_str} |-> @[d]]]
  IN  [removed EXCEPT ![to_emp] = (date_str :> duty_type) @@ @]

SwappedCounts(date_str, duty_type, from_emp, to_emp) ==
  LET removed == IF date_str \in DOMAIN assignments[from_emp]
                 THEN [counts EXCEPT ![from_emp][assignments[from_emp][date_str]] = @ - 1]
                 ELSE counts
  IN  [removed EXCEPT ![to_emp][duty_type] = @ + 1]

SwappedPoints(date_str, duty_type, from_emp, to_emp) ==
  LET removed == IF date_str \in DOMAIN assignments[from_emp]
                 THEN [points EXCEPT ![from_emp] =
                         @ - Weight(assignments[from_emp][date_str])]
                 ELSE points
  IN  [removed EXCEPT ![to_emp] = @ + Weight(duty_type)]

\* The mutation "while True" of the main loop: no cap on the iterations.
OptimizeBalanceIter_NoCap ==
  /\ pc = "balance"
  /\ iter' = iter + 1
  /\ IF over # <<>> /\ under # <<>> /\ Improvers # <<>>
     THEN LET o == Improvers[1]
              day == BestMove(o)[2]
              duty == BestMove(o)[3]
              u == BestMove(o)[4]
          IN  /\ out' = SwappedSchedule(day, duty, u)
              /\ assignments' = SwappedAssignments(day, duty, o, u)
              /\ counts' = SwappedCounts(day, duty, o, u)
              /\ points' = SwappedPoints(day, duty, o, u)
              /\ UNCHANGED pc
     ELSE /\ pc' = "return"
          /\ UNCHANGED <<out, assignments, counts, points>>
  /\ UNCHANGED <<config, manager, blocked_days, compensation, summary, mi, cur,
                 cands, p, day_rec, start_pts, result>>

\* One pass of the main loop of _optimize_balance ("for _ in
\* range(max_iterations)"); iter counts the passes begun.  A pass applies
\* one improving move, and the loop goes on, or it breaks: over or under is
\* empty after the retry, or no overloaded employee has an improving move.
\* The schedule is returned at the break or when max_iterations passes
\* were made.
OptimizeBalanceIter ==
  /\ pc = "balance"
  /\ IF iter < max_iterations
     THEN /\ iter' = iter + 1
          /\ IF over # <<>> /\ under # <<>> /\ Improvers # <<>>
             THEN LET o == Improvers[1]
                      day == BestMove(o)[2]
                      duty == BestMove(o)[3]
                      u == BestMove(o)[4]
                  IN  /\ out' = SwappedSchedule(day, duty, u)
                      /\ assignments' = SwappedAssignments(day, duty, o, u)
                      /\ counts' = SwappedCounts(day, duty, o, u)
                      /\ points' = SwappedPoints(day, duty, o, u)
                      /\ UNCHANGED pc
             ELSE /\ pc' = "return"
                  /\ UNCHANGED <<out, assignments, counts, points>>
     ELSE /\ pc' = "return"
          /\ UNCHANGED <<out, assignments, counts, points, iter>>
  /\ UNCHANGED <<config, manager, compensation, summary, blocked_days, mi, cur, cands, p, day_rec, start_pts, result>>

\* The mutation that resets the runtime state after every month.
AssignMonthReturn_Reset ==
  /\ pc = "return"
  /\ result' = (months[mi] :> out) @@ result
  /\ IF mi < Len(months)
     THEN mi' = mi + 1 /\ pc' = "month"
     ELSE pc' = "done" /\ UNCHANGED mi
  /\ assignments' = [e \in Employees |-> EmptyMap]
  /\ counts' = [e \in Employees |-> InitCounts]
  /\ points' = [e \in Employees |-> 0]
  /\ UNCHANGED <<config, manager, compensation, summary, blocked_days, cur, cands,
                 p, day_rec, out, start_pts, iter>>

\* assign_month returns the schedule; assign_months stores it under the
\* month key and goes on to the next month, or returns result.
AssignMonthReturn ==
  /\ pc = "return"
  /\ result' = (months[mi] :> out) @@ result
  /\ IF mi < Len(months)
     THEN mi' = mi + 1 /\ pc' = "month"
     ELSE pc' = "done" /\ UNCHANGED mi
  /\ UNCHANGED <<config, manager, compensation, summary, blocked_days, assignments, points, counts, cur, cands,
                 p, day_rec, out, start_pts, iter>>

\* --------------------------------------------------------------- summary
\* round(x, 3) of x points, in thousandths of a point.
Round3(x) == (2000 * x + PointUnit) \div (2 * PointUnit)

\* The duty types summarize_period reads out of e.counts.
SummaryDuties == {"WD", "Th", "WE", "B", "HO"}

\* e.counts[t] raises KeyError for a duty type that is no key of counts.
SummaryRaises == \E e \in Employees : \E t \in SummaryDuties : t \notin DOMAIN counts[e]

\* The row of one employee (its counters and its Total).
SummaryRow(e) ==
  [Employee |-> e, WD |-> counts[e]["WD"], Th |-> counts[e]["Th"],
   WE |-> counts[e]["WE"], B |-> counts[e]["B"], HO |-> counts[e]["HO"],
   Total |-> Round3(points[e])]

\* The TOTAL row.
SummaryTotalRow ==
  [Employee |-> "TOTAL",
   WD |-> SumSet(Employees, [e \in Employees |-> counts[e]["WD"]]),
   Th |-> SumSet(Employees, [e \in Employees |-> counts[e]["Th"]]),
   WE |-> SumSet(Employees, [e \in Employees |-> counts[e]["WE"]]),
   B |-> SumSet(Employees, [e \in Employees |-> counts[e]["B"]]),
   HO |-> SumSet(Employees, [e \in Employees |-> counts[e]["HO"]]),
   Total |-> Round3(SumSet(Employees, points))]

\* summarize_period, called once assign_months has returned: [] for an
\* empty roster; otherwise it builds one row per employee and the TOTAL
\* row, and raises KeyError at the first e.counts["HO"].
summarize_period ==
  /\ pc = "done"
  /\ IF roster = <<>>
     THEN summary' = <<>> /\ pc' = "summarized"
     ELSE IF SummaryRaises
     THEN pc' = "summary_raised" /\ UNCHANGED summary
     ELSE /\ summary' = [i \in DOMAIN roster |-> SummaryRow(roster[i])]
                          \o <<SummaryTotalRow>>
          /\ pc' = "summarized"
  /\ UNCHANGED <<config, manager, compensation, blocked_days, assignments, points, counts,
                 mi, cur, cands, p, day_rec, out, start_pts, iter, result>>

Next == AssignMonthsStart \/ PrepareMonth \/ AssignPrimary \/ AssignBackup
          \/ OptimizeBalanceStart \/ OptimizeBalanceIter \/ AssignMonthReturn
          \/ summarize_period

Spec == Init /\ [][Next]_vars

\* ------------------------------ _optimize_balance with its max_iterations
\* The specification BalanceSpec runs the build with _optimize_balance
\* called with a max_iterations argument other than the default as well:
\* no iterations at all, one, and the default.
MaxIterationChoices == {0, 1, DefaultMaxIterations}

BalanceInit ==
  /\ roster \in Rosters
  /\ raw \in [Employees -> EmployeeConfigs]
  /\ holidays = {}
  /\ months \in {s \in MonthLists : ValidMonthList(s)}
  /\ company_weekends = COMPANY_WEEKENDS
  /\ max_iterations \in MaxIterationChoices
  /\ NoManager
  /\ Constructed

BalanceSpec == BalanceInit /\ [][Next]_vars

\* ------------------------------------------- _perform_swap on its own
\* The specification SwapSpec runs the greedy phase of one month for a
\* roster of two or more employees and then applies _perform_swap to the
\* greedy schedule, with any of the moves the inner loops of
\* _optimize_balance examine: a holding (day, duty) of from_emp moved to a
\* to_emp that feasible() accepts.  Which of them the loop selects (over,
\* under, the improvement of the squared error) is left open; up to
\* MaxSwaps moves are made on a schedule.
SwapInit ==
  /\ roster \in {r \in Rosters : Len(r) >= 2 /\ r[1] = 1}
  /\ raw \in [Employees -> EmployeeConfigs]
  /\ holidays = {}
  /\ months \in {<<a>> : a \in MonthIds}
  /\ company_weekends = COMPANY_WEEKENDS
  /\ max_iterations = DefaultMaxIterations
  /\ NoManager
  /\ Constructed

\* _perform_swap called as the main loop of _optimize_balance calls it.
PerformSwap ==
  /\ pc = "balance"
  /\ iter < MaxSwaps
  /\ \E from_emp \in Employees : \E to_emp \in Employees :
       \E date_str \in DOMAIN out : \E duty_type \in DOMAIN out[date_str] :
         /\ out[date_str][duty_type] = from_emp
         /\ feasible(date_str, duty_type, to_emp)
         /\ out' = SwappedSchedule(date_str, duty_type, to_emp)
         /\ assignments' = SwappedAssignments(date_str, duty_type, from_emp, to_emp)
         /\ counts' = SwappedCounts(date_str, duty_type, from_emp, to_emp)
         /\ points' = SwappedPoints(date_str, duty_type, from_emp, to_emp)
  /\ iter' = iter + 1
  /\ UNCHANGED <<config, manager, compensation, summary, blocked_days, pc, mi,
                 cur, cands, p, day_rec, start_pts, result>>

SwapNext ==
  AssignMonthsStart \/ PrepareMonth \/ AssignPrimary \/ AssignBackup
    \/ OptimizeBalanceStart \/ PerformSwap

SwapSpec == SwapInit /\ [][SwapNext]_vars

\* ------------------------------------- picks among near-minimal candidates
\* The specification NearTieSpec runs the build for employees who are
\* available on a few dates only, so that the compensation of the least
\* available one is no multiple of half a point and leaves it, some duties
\* later, less than BALANCE_TOLERANCE below a colleague; and for employees
\* without blocked dates, who start every period tied.
NoConstraints == [blocked_days |-> {}, blocked_ranges |-> <<>>, observes_sabbath |-> FALSE]

\* An employee record that blocks every date but those of available.
AvailableOn(available) ==
  [blocked_days |-> AllDates \ available, blocked_ranges |-> <<>>,
   observes_sabbath |-> FALSE]

\* The records employee e can be loaded with.
NearTieConfigs(e) ==
  {NoConstraints} \cup
  {AvailableOn(a) : a \in
     IF e = 1 THEN {{4, 8, 9}}
     ELSE IF e = 2 THEN {{5, 8}, {5, 9}}
     ELSE IF e = 3 THEN {{1, 2, 5}, {2, 3, 5}}
     ELSE {{}}}

NearTieInit ==
  /\ roster \in {r \in Rosters : Len(r) >= 2}
  /\ raw \in [Employees -> UNION {NearTieConfigs(e) : e \in Employees}]
  /\ \A e \in Employees : raw[e] \in NearTieConfigs(e)
  /\ \/ \A e \in Employees : raw[e] = NoConstraints
     \/ \A e \in Employees : raw[e] # NoConstraints
  /\ holidays = {}
  /\ months \in {s \in MonthLists : ValidMonthList(s)}
  /\ company_weekends = COMPANY_WEEKENDS
  /\ max_iterations = DefaultMaxIterations
  /\ NoManager
  /\ Constructed

NearTieSpec == NearTieInit /\ [][Next]_vars

\* --------------------------------------- Employee.prepare_for_month alone
\* The specification EmployeeSpec calls prepare_for_month on Employee
\* objects for one target month after another, as the month loops of
\* _calculate_availability_weights and assign_months do.

\* What a raw range entry can hold under "start" and "end".
RangeEnds == AllDates \cup {BadDate}

\* Raw range entries: every pair of valid or invalid strings, and entries
\* with a key missing.
RawRanges ==
  [start : RangeEnds, end : RangeEnds] \cup {[start |-> 2], [end |-> 2]}

\* Raw range lists: none, one entry, and an entry followed by a range in
\* order.
RawRangeLists ==
  {<<>>} \cup {<<r>> : r \in RawRanges}
    \cup {<<r, [start |-> 2, end |-> 3]>> :
            r \in {[start |-> BadDate, end |-> 1], [start |-> 1],
                   [start |-> 1, end |-> BadDate],
                   [start |-> DaysPerMonth, end |-> 1], [start |-> 1, end |-> 1]}}

RawConfigs ==
  [blocked_days : {{}, {2, DaysPerMonth + 1}},
   blocked_ranges : RawRangeLists,
   observes_sabbath : BOOLEAN]

\* The record cfg with every well-formed range given in reverse put in order.
Reordered(cfg) ==
  [cfg EXCEPT !.blocked_ranges =
     [i \in DOMAIN cfg.blocked_ranges |->
        LET rng == cfg.blocked_ranges[i]
        IN  IF Malformed(rng) \/ rng.start <= rng.end THEN rng
            ELSE [start |-> rng.end, end |-> rng.start]]]

\* The record cfg without its malformed range entries.
WellFormedOnly(cfg) ==
  [cfg EXCEPT !.blocked_ranges = SelectSeq(@, LAMBDA rng : ~ Malformed(rng))]

\* The targets of the calls: every list of one or two months.
TargetLists ==
  {<<a>> : a \in MonthIds} \cup {<<a, b>> : a \in MonthIds, b \in MonthIds}

\* Three Employee objects that hold runtime state of an earlier build: the
\* first is loaded with a record of RawConfigs, the second with the same
\* record with its reversed ranges in order, the third with the same record
\* without its malformed ranges.
EmployeeInit ==
  /\ roster = <<1, 2, 3>>
  /\ raw \in {(1 :> c) @@ (2 :> Reordered(c)) @@ (3 :> WellFormedOnly(c)) :
                c \in RawConfigs}
  /\ holidays = {}
  /\ months \in TargetLists
  /\ company_weekends = COMPANY_WEEKENDS
  /\ max_iterations = DefaultMaxIterations
  /\ NoManager
  /\ compensation = [e \in Employees |-> 0]
  /\ summary = <<>>
  /\ blocked_days = [e \in Employees |-> {}]
  /\ assignments = [e \in Employees |-> (1 :> "WD") @@ (5 :> "B")]
  /\ points = [e \in Employees |-> Weight("WD") + Weight("B")]
  /\ counts = [e \in Employees |-> [InitCounts EXCEPT !["WD"] = 1, !["B"] = 1]]
  /\ pc = "constructed"
  /\ mi = 0
  /\ cur = 0
  /\ cands = <<>>
  /\ p = None
  /\ day_rec = EmptyMap
  /\ out = EmptyMap
  /\ start_pts = [e \in Employees |-> 0]
  /\ iter = 0
  /\ result = EmptyMap

\* for e in self.employees: e.prepare_for_month(year, m), for the next
\* month m of the list.
PrepareForMonth ==
  /\ pc \in {"constructed", "prepared"}
  /\ mi < Len(months)
  /\ mi' = mi + 1
  /\ blocked_days' = [e \in Employees |-> prepare_for_month(e, months[mi + 1])]
  /\ pc' = "prepared"
  /\ UNCHANGED <<config, manager, compensation, summary, assignments, points,
                 counts, cur, cands, p, day_rec, out, start_pts, iter, result>>

EmployeeNext == PrepareForMonth

EmployeeSpec == EmployeeInit /\ [][EmployeeNext]_vars

\* ------------------------------------------------------ BlockedDaysManager
\* The specification ManagerSpec makes up to MaxCalls calls on a
\* BlockedDaysManager.  An employee dict is a function from its keys to
\* their values; blocked_days is a list of date strings and blocked_ranges a
\* list of {"start", "end"} dicts.  employees_file is what _save_employees
\* wrote last (the loaded list before the first save).
ManagerDates == 1..MaxManagerDate
ManagerNames == {"Alice", "Bob", "NonExistent"}

\* The lists the manager is loaded with: Alice with a blocked day and a
\* blocked range, and Bob with empty lists or without the two keys.
EmployeeFiles ==
  { <<[name |-> "Alice", blocked_days |-> <<1>>,
       blocked_ranges |-> <<[start |-> 1, end |-> 2]>>],
      bob>> :
    bob \in {[name |-> "Bob"],
             [name |-> "Bob", blocked_days |-> <<>>, blocked_ranges |-> <<>>]} }

\* The mutation that skips the validation of the date strings.
ValidDate_Any(d) == TRUE

\* date.fromisoformat(d) does not raise ValueError.
ValidDate(d) == d # BadDate

\* list.sort() of a list of date strings.
SortedList(s) == StableSort(s, [x \in Range(s) |-> x])

\* list.remove(x): the list without the first occurrence of x.
RemoveFirst(s, x) ==
  LET i0 == CHOOSE i \in DOMAIN s : s[i] = x /\ \A j \in 1..(i - 1) : s[j] # x
  IN  SubSeq(s, 1, i0 - 1) \o SubSeq(s, i0 + 1, Len(s))

\* emp after "if key not in emp: emp[key] = []".
WithKey(emp, key) == IF key \in DOMAIN emp THEN emp ELSE (key :> <<>>) @@ emp

\* What a call leaves: the list, whether _save_employees ran, the value
\* returned.
Outcome(emps, saved, ret) == [employees |-> emps, saved |-> saved, returned |-> ret]

\* The loop of add_blocked_day from the i-th dict on, the date being valid:
\* the first dict of that name that does not hold the date gets it, the
\* list is sorted and saved, and True is returned; a dict that holds the
\* date already is passed over; the loop falls through to return False.
RECURSIVE AddDayLoop(_, _, _, _)
AddDayLoop(emps, i, employee_name, blocked_date) ==
  IF i > Len(emps) THEN Outcome(emps, FALSE, FALSE)
  ELSE IF emps[i].name # employee_name
  THEN AddDayLoop(emps, i + 1, employee_name, blocked_date)
  ELSE LET emp == WithKey(emps[i], "blocked_days")
           keyed == [emps EXCEPT ![i] = emp]
       IN  IF blocked_date \notin Range(emp.blocked_days)
           THEN Outcome([keyed EXCEPT ![i].blocked_days =
                           SortedList(Append(@, blocked_date))], TRUE, TRUE)
           ELSE AddDayLoop(keyed, i + 1, employee_name, blocked_date)

\* The loop of remove_blocked_day from the i-th dict on.
RECURSIVE RemoveDayLoop(_, _, _, _)
RemoveDayLoop(emps, i, employee_name, blocked_date) ==
  IF i > Len(emps) THEN Outcome(emps, FALSE, FALSE)
  ELSE IF /\ emps[i].name = employee_name
          /\ "blocked_days" \in DOMAIN emps[i]
          /\ blocked_date \in Range(emps[i].blocked_days)
  THEN Outcome([emps EXCEPT ![i].blocked_days = RemoveFirst(@, blocked_date)],
               TRUE, TRUE)
  ELSE RemoveDayLoop(emps, i + 1, employee_name, blocked_date)

\* The mutation without "if start > end: start, end = end, start".
NewRange_AsGiven(start_date, end_date) ==
  [start |-> start_date, end |-> end_date]

\* new_range of add_blocked_range.
NewRange(start_date, end_date) ==
  IF start_date > end_date
  THEN [start |-> end_date, end |-> start_date]
  ELSE [start |-> start_date, end |-> end_date]

\* The loop of add_blocked_range, the dates being valid: the first dict of
\* that name gets the range appended.
AddRangeLoop(emps, employee_name, start_date, end_date) ==
  IF \A i \in DOMAIN emps : emps[i].name # employee_name
  THEN Outcome(emps, FALSE, FALSE)
  ELSE LET i0 == CHOOSE i \in DOMAIN emps :
                   /\ emps[i].name = employee_name
                   /\ \A j \in 1..(i - 1) : emps[j].name # employee_name
           emp == WithKey(emps[i0], "blocked_ranges")
       IN  Outcome([emps EXCEPT ![i0] =
                      [emp EXCEPT !.blocked_ranges =
                         Append(@, NewRange(start_date, end_date))]],
                   TRUE, TRUE)

\* The loop of remove_blocked_range from the i-th dict on: the first range
\* of a dict of that name whose start and end are the two strings is
\* popped.
RECURSIVE RemoveRangeLoop(_, _, _, _, _)
RemoveRangeLoop(emps, i, employee_name, start_date, end_date) ==
  IF i > Len(emps) THEN Outcome(emps, FALSE, FALSE)
  ELSE IF /\ emps[i].name = employee_name
          /\ "blocked_ranges" \in DOMAIN emps[i]
          /\ [start |-> start_date, end |-> end_date] \in Range(emps[i].blocked_ranges)
  THEN Outcome([emps EXCEPT ![i].blocked_ranges =
                  RemoveFirst(@, [start |-> start_date, end |-> end_date])],
               TRUE, TRUE)
  ELSE RemoveRangeLoop(emps, i + 1, employee_name, start_date, end_date)

\* The state after a call c that left the outcome r; a session makes at
\* most MaxCalls calls.
Called(c, r) ==
  /\ calls' = calls + 1
  /\ call' = c
  /\ employees' = r.employees
  /\ employees_file' = IF r.saved THEN r.employees ELSE employees_file
  /\ returned' = r.returned
  /\ UNCHANGED <<scheduling, swapper>>

\* BlockedDaysManager.add_blocked_day
add_blocked_day ==
  \E employee_name \in ManagerNames : \E blocked_date \in ManagerDates \cup {BadDate} :
    /\ calls < MaxCalls
    /\ Called([op |-> "add_blocked_day", employee_name |-> employee_name,
               blocked_date |-> blocked_date],
              IF ValidDate(blocked_date)
              THEN AddDayLoop(employees, 1, employee_name, blocked_date)
              ELSE Outcome(employees, FALSE, FALSE))

\* BlockedDaysManager.remove_blocked_day
remove_blocked_day ==
  \E employee_name \in ManagerNames : \E blocked_date \in ManagerDates \cup {BadDate} :
    /\ calls < MaxCalls
    /\ Called([op |-> "remove_blocked_day", employee_name |-> employee_name,
               blocked_date |-> blocked_date],
              RemoveDayLoop(employees, 1, employee_name, blocked_date))

\* BlockedDaysManager.add_blocked_range
add_blocked_range ==
  \E employee_name \in ManagerNames :
    \E start_date \in ManagerDates \cup {BadDate} :
      \E end_date \in ManagerDates \cup {BadDate} :
        /\ calls < MaxCalls
        /\ Called([op |-> "add_blocked_range", employee_name |-> employee_name,
                   start_date |-> start_date, end_date |-> end_date],
                  IF ValidDate(start_date) /\ ValidDate(end_date)
                  THEN AddRangeLoop(employees, employee_name, start_date, end_date)
                  ELSE Outcome(employees, FALSE, FALSE))

\* BlockedDaysManager.remove_blocked_range
remove_blocked_range ==
  \E employee_name \in ManagerNames :
    \E start_date \in ManagerDates \cup {BadDate} :
      \E end_date \in ManagerDates \cup {BadDate} :
        /\ calls < MaxCalls
        /\ Called([op |-> "remove_blocked_range", employee_name |-> employee_name,
                   start_date |-> start_date, end_date |-> end_date],
                  RemoveRangeLoop(employees, 1, employee_name, start_date, end_date))

\* BlockedDaysManager.clear_all_blocked_days: the first dict of that name
\* gets two empty lists.
clear_all_blocked_days ==
  \E employee_name \in ManagerNames :
    /\ calls < MaxCalls
    /\ Called([op |-> "clear_all_blocked_days", employee_name |-> employee_name],
              IF \A i \in DOMAIN employees : employees[i].name # employee_name
              THEN Outcome(employees, FALSE, FALSE)
              ELSE LET i0 == CHOOSE i \in DOMAIN employees :
                               /\ employees[i].name = employee_name
                               /\ \A j \in 1..(i - 1) : employees[j].name # employee_name
                   IN  Outcome([employees EXCEPT ![i0] =
                                  ("blocked_days" :> <<>>) @@ ("blocked_ranges" :> <<>>) @@ @],
                               TRUE, TRUE))

\* State after BlockedDaysManager(employees_file) has loaded the file; no
\* Scheduler runs.
ManagerInit ==
  /\ employees \in EmployeeFiles
  /\ employees_file = employees
  /\ call = <<>>
  /\ returned = FALSE
  /\ calls = 0
  /\ NoSwapper
  /\ roster = <<>>
  /\ raw = EmptyMap
  /\ holidays = {}
  /\ months = <<1>>
  /\ company_weekends = COMPANY_WEEKENDS
  /\ max_iterations = DefaultMaxIterations
  /\ Constructed

ManagerNext ==
  add_blocked_day \/ remove_blocked_day \/ add_blocked_range
    \/ remove_blocked_range \/ clear_all_blocked_days

ManagerSpec == ManagerInit /\ [][ManagerNext]_vars

\* ------------------------------------ BlockedDaysManager.get_blocked_calendar
\* The specification CalendarSpec loads one employees file twice: as the
\* Employee object of a Scheduler (raw) and as the list of dicts of a
\* BlockedDaysManager (employees), and asks the manager for calendars.

\* The dict of the employees file that Employee.from_dict turns into cfg.
FileRecord(name, cfg) ==
  [name |-> name,
   blocked_days |-> SortedSeq(cfg.blocked_days),
   blocked_ranges |-> cfg.blocked_ranges,
   observes_sabbath |-> cfg.observes_sabbath]

\* BlockedDaysManager.get_employee_blocked_days: the three entries of the
\* first dict of that name, or the defaults.
get_employee_blocked_days(emps, employee_name) ==
  IF \A i \in DOMAIN emps : emps[i].name # employee_name
  THEN [blocked_days |-> <<>>, blocked_ranges |-> <<>>, observes_sabbath |-> FALSE]
  ELSE LET emp == emps[CHOOSE i \in DOMAIN emps :
                         /\ emps[i].name = employee_name
                         /\ \A j \in 1..(i - 1) : emps[j].name # employee_name]
       IN  [blocked_days |-> IF "blocked_days" \in DOMAIN emp
                             THEN emp.blocked_days ELSE <<>>,
            blocked_ranges |-> IF "blocked_ranges" \in DOMAIN emp
                               THEN emp.blocked_ranges ELSE <<>>,
            observes_sabbath |-> IF "observes_sabbath" \in DOMAIN emp
                                 THEN emp.observes_sabbath ELSE FALSE]

\* The loop over blocked_ranges of get_blocked_calendar for one day, from
\* the i-th entry on: the exception an entry raises (a key is missing, a
\* date string is rejected), "match" at the first entry with start <= day
\* <= end, "none" when the list is exhausted.
RECURSIVE RangeScan(_, _, _)
RangeScan(ranges, i, day_date) ==
  IF i > Len(ranges) THEN "none"
  ELSE IF "start" \notin DOMAIN ranges[i] THEN "KeyError"
  ELSE IF ranges[i].start = BadDate THEN "ValueError"
  ELSE IF "end" \notin DOMAIN ranges[i] THEN "KeyError"
  ELSE IF ranges[i].end = BadDate THEN "ValueError"
  ELSE IF ranges[i].start <= day_date /\ day_date <= ranges[i].end THEN "match"
  ELSE RangeScan(ranges, i + 1, day_date)

\* What get_blocked_calendar(employee_name, year, month) leaves: the
\* exception of the first day whose range loop raises, or the dict from the
\* blocked days of the month (1-based day numbers) to their reasons.
BlockedCalendar(emps, employee_name, month) ==
  LET blocked_info == get_employee_blocked_days(emps, employee_name)
      scan == [d \in iter_month(month) |-> RangeScan(blocked_info.blocked_ranges, 1, d)]
      raising == {d \in iter_month(month) : scan[d] \in {"KeyError", "ValueError"}}
      reason == [d \in iter_month(month) |->
                   IF blocked_info.observes_sabbath /\ weekday(d) \in {4, 5}
                   THEN "Sabbath observance"
                   ELSE IF scan[d] = "match" THEN "Range"
                   ELSE IF d \in Range(blocked_info.blocked_days) THEN "Single day block"
                   ELSE ""]
  IN  IF raising # {}
      THEN [raised |-> scan[CHOOSE d \in raising : \A o \in raising : d <= o],
            blocked_calendar |-> EmptyMap]
      ELSE [raised |-> "",
            blocked_calendar |->
              [day \in {d - MonthFirst(month) + 1 : d \in {x \in iter_month(month) : reason[x] # ""}}
                 |-> reason[MonthFirst(month) + day - 1]]]

\* BlockedDaysManager.get_blocked_calendar, for a name of the file or for
\* an unknown one (None).
get_blocked_calendar ==
  \E employee_name \in Employees \cup {None} : \E month \in MonthIds :
    /\ calls < MaxCalls
    /\ Called([op |-> "get_blocked_calendar", employee_name |-> employee_name,
               month |-> month],
              Outcome(employees, FALSE, BlockedCalendar(employees, employee_name, month)))

CalendarInit ==
  /\ roster = <<1>>
  /\ raw \in {(1 :> c) : c \in RawConfigs}
  /\ employees = <<FileRecord(1, raw[1])>>
  /\ employees_file = employees
  /\ call = <<>>
  /\ returned = FALSE
  /\ calls = 0
  /\ NoSwapper
  /\ holidays = {}
  /\ months = <<1>>
  /\ company_weekends = COMPANY_WEEKENDS
  /\ max_iterations = DefaultMaxIterations
  /\ Constructed

CalendarNext == get_blocked_calendar

CalendarSpec == CalendarInit /\ [][CalendarNext]_vars

\* ------------------------------------------------------ ManualSwapManager
\* The specification ManualSwapSpec constructs a ManualSwapManager on a
\* schedule file of the form assign_month writes and calls execute_swap
\* on it, up to MaxSwaps times.

\* self.schedule.get(date_str, {})
DayAssignments(sched, date_str) ==
  IF date_str \in DOMAIN sched THEN sched[date_str] ELSE EmptyMap

\* day_assignments.values()
Assigned(day_assignments) == {day_assignments[k] : k \in DOMAIN day_assignments}

\* The mutation that looks for the incoming employee on date1 only.
Conflicts_Date1Only(day1_assignments, day2_assignments, emp1, emp2, date1, date2) ==
  IF emp2 \in Assigned(day1_assignments)
  THEN <<[employee |-> emp2, already_assigned_on |-> date1]>>
  ELSE <<>>

\* The conflicts list of propose_swap: emp2 holds a duty on date1 already,
\* emp1 holds a duty on date2 already.
Conflicts(day1_assignments, day2_assignments, emp1, emp2, date1, date2) ==
  (IF emp2 \in Assigned(day1_assignments)
   THEN <<[employee |-> emp2, already_assigned_on |-> date1]>>
   ELSE <<>>)
  \o
  (IF emp1 \in Assigned(day2_assignments)
   THEN <<[employee |-> emp1, already_assigned_on |-> date2]>>
   ELSE <<>>)

\* ManualSwapManager.propose_swap; an error is the list of its messages.
propose_swap(sched, date1, duty1, date2, duty2) ==
  LET day1_assignments == DayAssignments(sched, date1)
      day2_assignments == DayAssignments(sched, date2)
  IN  IF duty1 \notin DOMAIN day1_assignments
      THEN [valid |-> FALSE,
            error |-> <<[no_assignment |-> duty1, on |-> date1]>>]
      ELSE IF duty2 \notin DOMAIN day2_assignments
      THEN [valid |-> FALSE,
            error |-> <<[no_assignment |-> duty2, on |-> date2]>>]
      ELSE LET emp1 == day1_assignments[duty1]
               emp2 == day2_assignments[duty2]
               conflicts == Conflicts(day1_assignments, day2_assignments,
                                      emp1, emp2, date1, date2)
           IN  IF conflicts # <<>>
               THEN [valid |-> FALSE, error |-> conflicts]
               ELSE [valid |-> TRUE, emp1 |-> emp1, emp2 |-> emp2,
                     date1 |-> date1, duty1 |-> duty1,
                     date2 |-> date2, duty2 |-> duty2,
                     description |-> <<emp1, duty1, date1, emp2, duty2, date2>>]

\* self.employees.get(name, {}).get('email')
EmailOf(emps, name) ==
  IF name \in DOMAIN emps /\ "email" \in DOMAIN emps[name]
  THEN emps[name].email
  ELSE None

\* ManualSwapManager._send_swap_notifications: the list it returns.
_send_swap_notifications(emps, swap_details) ==
  LET emp1_email == EmailOf(emps, swap_details.emp1)
      emp2_email == EmailOf(emps, swap_details.emp2)
  IN  IF emp1_email = None \/ emp2_email = None
      THEN <<"Warning: Missing email addresses, notifications not sent">>
      ELSE <<[prepared_for |-> emp1_email], [prepared_for |-> emp2_email],
             "Note: Email sending requires SMTP configuration">>

\* The two assignments of execute_swap, one after the other.
Exchanged(sched, validation) ==
  LET first == [sched EXCEPT ![validation.date1][validation.duty1] = validation.emp2]
  IN  [first EXCEPT ![validation.date2][validation.duty2] = validation.emp1]

\* The mutation that saves the schedule before it returns the validation.
Rejection_Saved(sched, validation) ==
  [schedule |-> sched, saved |-> TRUE, notified |-> FALSE, returned |-> validation]

\* execute_swap on an invalid validation: it is returned, nothing else
\* is done.
Rejection(sched, validation) ==
  [schedule |-> sched, saved |-> FALSE, notified |-> FALSE, returned |-> validation]

\* execute_swap on a valid validation: the schedule is changed and saved,
\* the notifications are prepared if requested.
Execution(sched, emps, validation, send_notifications) ==
  [schedule |-> Exchanged(sched, validation),
   saved |-> TRUE,
   notified |-> send_notifications,
   returned |-> [success |-> TRUE,
                 description |-> validation.description,
                 notifications_sent |->
                   IF send_notifications
                   THEN _send_swap_notifications(emps, validation)
                   ELSE <<>>,
                 updated_file |-> "schedule_file"]]

\* The employees files a ManualSwapManager is constructed with: none, and
\* one in which the first employee of the roster has no email.
SwapEmployeeFiles ==
  { EmptyMap,
    [e \in Employees |->
       IF e = roster[1] THEN [name |-> e] ELSE [name |-> e, email |-> e]] }

\* The dates and the duties execute_swap is called with: a weekday and a
\* weekend day of the first month and a date no schedule holds; the duty
\* types of those dates and the backup.
SwapDates == {3, 5, BadDate}
SwapDuties == {"WD", "WE", "B"}

\* ManualSwapManager.execute_swap
execute_swap ==
  /\ calls < MaxSwaps
  /\ \E date1 \in SwapDates : \E duty1 \in SwapDuties :
       \E date2 \in SwapDates : \E duty2 \in SwapDuties :
         \E send_notifications \in BOOLEAN :
           LET validation == propose_swap(schedule, date1, duty1, date2, duty2)
               r == IF ~validation.valid
                    THEN Rejection(schedule, validation)
                    ELSE Execution(schedule, employees, validation, send_notifications)
           IN  /\ call' = [op |-> "execute_swap", date1 |-> date1, duty1 |-> duty1,
                           date2 |-> date2, duty2 |-> duty2,
                           send_notifications |-> send_notifications]
               /\ schedule' = r.schedule
               /\ schedule_file' = IF r.saved THEN r.schedule ELSE schedule_file
               /\ saves' = IF r.saved THEN saves + 1 ELSE saves
               /\ notified' = IF r.notified THEN notified + 1 ELSE notified
               /\ returned' = r.returned
  /\ calls' = calls + 1
  /\ UNCHANGED <<scheduling, employees, employees_file>>

\* The employee whose turn the i-th is when the roster takes turns.
Turn(i) == roster[(i % Len(roster)) + 1]

\* A schedule of the first month as assign_month writes it: a record for
\* every date, the primary under the duty type of the date and the backup
\* under "B".  The primaries take turns from the k-th employee on and the
\* backup of a date is the employee whose turn is behind turns later; the
\* dates of unassigned have an empty record and those of no_backup a
\* primary only.
TurnSchedule(k, behind, unassigned, no_backup) ==
  [d \in iter_month(1) |->
     IF d \in unassigned THEN EmptyMap
     ELSE IF d \in no_backup THEN (classify_duty(d) :> Turn(d + k))
     ELSE (classify_duty(d) :> Turn(d + k)) @@ ("B" :> Turn(d + k + behind))]

\* The schedule files a ManualSwapManager is constructed on.
ScheduleFiles ==
  { TurnSchedule(k, behind, g[1], g[2]) :
      k \in {0, 1}, behind \in {1, 2},
      g \in {<<{}, {}>>, <<{}, {3}>>, <<{3}, {5}>>} }

\* ManualSwapManager.__init__: the schedule and the employees are loaded.
ManualSwapInit ==
  /\ roster \in {r \in Rosters : Len(r) = NumEmployees /\ r[1] = 1}
  /\ raw = [e \in Employees |-> NoConstraints]
  /\ holidays = {}
  /\ months = <<1>>
  /\ company_weekends = COMPANY_WEEKENDS
  /\ max_iterations = DefaultMaxIterations
  /\ Constructed
  /\ schedule \in ScheduleFiles
  /\ schedule_file = schedule
  /\ saves = 0
  /\ notified = 0
  /\ employees \in SwapEmployeeFiles
  /\ employees_file = employees
  /\ call = <<>>
  /\ returned = FALSE
  /\ calls = 0

ManualSwapNext == execute_swap

ManualSwapSpec == ManualSwapInit /\ [][ManualSwapNext]_vars

\* ================================================================ claims
\* The employees eligible for date d, from the employee fields alone.
EligibleSet(d) ==
  {e \in Employees : d \notin blocked_days[e] /\ d \notin DOMAIN assignments[e]}

\* The members of pool whose points are within BALANCE_TOLERANCE of the
\* least points of pool.
WithinTolerance(pool) ==
  {e \in pool : \A o \in pool :
     TOLERANCE_INV * points[e] <= TOLERANCE_INV * points[o] + PointUnit}

\* The near-minimal members of pool of least simulated variance.
TiedBest(pool, duty_weight) ==
  {e \in WithinTolerance(pool) : \A o \in WithinTolerance(pool) :
     SimulatedVar(e, duty_weight) <= SimulatedVar(o, duty_weight)}

FirstInName(S) == CHOOSE e \in S : \A o \in S : e <= o
FirstInRoster(S) ==
  roster[CHOOSE i \in DOMAIN roster :
           roster[i] \in S /\ \A j \in 1..(i - 1) : roster[j] \notin S]

\* A step of the greedy loop that picks a primary for date cur.
PrimaryPick == pc = "greedy" /\ cur <= MonthLast(months[mi]) /\ p' # None
\* A step of the greedy loop that picks a backup for date cur.
BackupPick == pc = "backup" /\ "B" \in DOMAIN day_rec'

NoDoubleBooking(rec) == \A t1, t2 \in DOMAIN rec : t1 # t2 => rec[t1] # rec[t2]

\* The sum of the weights of the entries of e's assignments map.
AssignedWeight(e) ==
  SumSet(DOMAIN assignments[e],
         [d \in DOMAIN assignments[e] |-> Weight(assignments[e][d])])

\* The sum of the weights of the duties the returned schedules give e.
ScheduleWeight(e) ==
  SumSet(DOMAIN result,
    [m \in DOMAIN result |->
       SumSet(DOMAIN result[m],
         [d \in DOMAIN result[m] |->
            SumSet({t \in DOMAIN result[m][d] : result[m][d][t] = e},
                   [t \in DOMAIN result[m][d] |-> Weight(t)])])])

\* The sum over the duty types of e's counter times the weight.
CountedWeight(e) ==
  SumSet(DOMAIN counts[e], [t \in DOMAIN counts[e] |-> counts[e][t] * Weight(t)])

\* n times the sum of squared deviation of the month-local points.
MonthLocalSSE == SSE([e \in Employees |-> points[e] - start_pts[e]])

\* C1: in the day record being built, in the schedule being built and in
\* every schedule returned, no employee holds two duty types on one date
\* (so the Backup of a date is never its primary).
C1_NoDoubleBooking ==
  /\ NoDoubleBooking(day_rec)
  /\ \A d \in DOMAIN out : NoDoubleBooking(out[d])
  /\ \A m \in DOMAIN result : \A d \in DOMAIN result[m] : NoDoubleBooking(result[m][d])

\* A finished run with a weekend date that has a primary and a Backup.
C1_Witness ==
  /\ pc = "done"
  /\ \E m \in DOMAIN result : \E d \in DOMAIN result[m] :
       {"WE", "B"} \subseteq DOMAIN result[m][d]

\* C2: at every point of a run no employee's assignments map has a key in
\* their current derived blocked set, the schedule being built names nobody
\* on a date of their current blocked set, and every returned month's
\* schedule names nobody on a date of their derived blocked set of that month.
C2_BlockedDayExclusion ==
  /\ \A e \in Employees : DOMAIN assignments[e] \cap blocked_days[e] = {}
  /\ pc = "backup" => \A t \in DOMAIN day_rec : cur \notin blocked_days[day_rec[t]]
  /\ \A d \in DOMAIN out : \A t \in DOMAIN out[d] : d \notin blocked_days[out[d][t]]
  /\ \A m \in DOMAIN result : \A d \in DOMAIN result[m] : \A t \in DOMAIN result[m][d] :
       d \notin prepare_for_month(result[m][d][t], m)

\* A finished two-month run in which a Sabbath observer, whose blocked set
\* was re-derived for the second month, holds duties in both months.
C2_Witness ==
  /\ pc = "done"
  /\ Len(months) = 2
  /\ \E e \in Employees :
       /\ raw[e].observes_sabbath
       /\ prepare_for_month(e, months[1]) # prepare_for_month(e, months[2])
       /\ \A i \in 1..2 : DOMAIN assignments[e] \cap iter_month(months[i]) # {}

\* C3: in a run that started from reset state with points 0 (no
\* compensation applied), every employee's points equals the sum of the
\* weights of the entries of their assignments map.
C3_WeightConservation ==
  (\A e \in Employees : compensation[e] = 0)
    => \A e \in Employees : points[e] = AssignedWeight(e)

\* C4 as stated: at the end of a run every employee's points equals the sum
\* of the weights of the duties the schedules assign to them.
C4_PointsAreAssignedWeights ==
  pc = "done" => \A e \in Employees : points[e] = ScheduleWeight(e)

\* C4 as amended: at the end of a run (returned or raised) every employee's
\* points equals the weights of the duties counted for them minus the
\* availability compensation subtracted at period start; when the run
\* returned, the counted duties are those of the returned schedules.
C4_PointsAreWeightsLessCompensation ==
  /\ pc \in {"done", "raised"} =>
       \A e \in Employees : points[e] = CountedWeight(e) - compensation[e]
  /\ pc = "done" =>
       \A e \in Employees : points[e] = ScheduleWeight(e) - compensation[e]

\* A finished run in which a compensated employee holds duties.
C4_Witness ==
  /\ pc = "done"
  /\ \E e \in Employees : compensation[e] > 0 /\ DOMAIN assignments[e] # {}

\* C5: no step of the balancing phase increases the sum of squared
\* deviation of the month-local points (points - start_pts), so its value
\* when the phase returns is at most its value when the phase started.
C5_NonIncreasingVariance ==
  [][pc = "balance" => MonthLocalSSE' <= MonthLocalSSE]_vars

\* The balancing phase has returned for a month whose greedy result gives
\* two employees loads more than a point apart.
C5_Witness ==
  /\ pc = "return"
  /\ iter = 1
  /\ \E e1, e2 \in Employees :
       AssignedWeight(e1) - AssignedWeight(e2) > PointUnit /\ Len(months) = 1

\* C7: the candidates for a date of the month being scheduled are exactly
\* the employees for whom the date is neither in the derived blocked set nor
\* a key of the assignments map; an employee with an assignment on a date
\* is not available on it, and in particular the primary just picked out of
\* cands no longer is.
C7_Eligibility ==
  /\ \A d \in iter_month(months[mi]) : Range(_eligible(d)) = EligibleSet(d)
  /\ \A e \in Employees : \A d \in DOMAIN assignments[e] : ~ is_available(e, d)
  /\ pc = "backup" => /\ Range(cands) = Range(_eligible(cur)) \cup {p}
                      /\ ~ is_available(p, cur)

\* A primary was picked out of two or more candidates and is no longer
\* eligible for the date.
C7_Witness ==
  /\ pc = "backup"
  /\ Len(cands) >= 2
  /\ p \in Range(cands)
  /\ p \notin EligibleSet(cur)

\* C8: every primary picked belongs to the employees eligible for the date
\* and every Backup picked to those eligible other than the primary; the
\* pick's points at selection time are within BALANCE_TOLERANCE of the
\* pool's least points, and it is the only such member when there is one.
C8_LeastLoadedSelection ==
  [][ /\ PrimaryPick =>
           /\ p' \in WithinTolerance(EligibleSet(cur))
           /\ Cardinality(WithinTolerance(EligibleSet(cur))) = 1
                => WithinTolerance(EligibleSet(cur)) = {p'}
      /\ BackupPick =>
           /\ day_rec'["B"] \in WithinTolerance(EligibleSet(cur) \ {p})
           /\ Cardinality(WithinTolerance(EligibleSet(cur) \ {p})) = 1
                => WithinTolerance(EligibleSet(cur) \ {p}) = {day_rec'["B"]}
    ]_vars

\* A Backup is about to be picked from a pool of two or more of which
\* exactly one is within the tolerance of the least points.
C8_Witness ==
  /\ pc = "backup"
  /\ Cardinality(EligibleSet(cur) \ {p}) >= 2
  /\ Cardinality(WithinTolerance(EligibleSet(cur) \ {p})) = 1

\* C9 as stated: the pick is the first in name order of the near-minimal
\* candidates of least simulated variance.
C9_TieBreakByName ==
  [][ /\ PrimaryPick =>
           p' = FirstInName(TiedBest(EligibleSet(cur), Weight(classify_duty(cur))))
      /\ BackupPick =>
           day_rec'["B"] = FirstInName(TiedBest(EligibleSet(cur) \ {p}, Weight("B")))
    ]_vars

\* C9 as amended: the pick is one of the near-minimal candidates of least
\* simulated variance, and the first of them in roster order whenever the
\* float variances are exact; name order plays no part.
C9_TieBreakByRosterOrder ==
  [][ /\ PrimaryPick =>
           LET tied == TiedBest(EligibleSet(cur), Weight(classify_duty(cur)))
           IN  p' \in tied /\ (FloatExact => p' = FirstInRoster(tied))
      /\ BackupPick =>
           LET tied == TiedBest(EligibleSet(cur) \ {p}, Weight("B"))
           IN  day_rec'["B"] \in tied
                 /\ (FloatExact => day_rec'["B"] = FirstInRoster(tied))
    ]_vars

\* The first date of an uncompensated run was given to the first employee
\* of the roster, who is not the first in name order, out of a full tie.
C9_Witness ==
  /\ pc = "greedy"
  /\ mi = 1
  /\ cur = MonthFirst(months[1]) + 1
  /\ FloatExact
  /\ Len(roster) >= 2
  /\ \A e \in Employees : MonthFirst(months[1]) \notin blocked_days[e]
  /\ p = roster[1]
  /\ p # FirstInName(Employees)

\* C10: on a date with no eligible employee the greedy step stores an empty
\* record for the date, does not raise, leaves every employee's state as it
\* was, and moves on to the next date of the month.
C10_InfeasibleDateLeftUnassigned ==
  [][ (pc = "greedy" /\ cur <= MonthLast(months[mi]) /\ EligibleSet(cur) = {}) =>
        /\ cur \in DOMAIN out'
        /\ DOMAIN out'[cur] = {}
        /\ UNCHANGED <<assignments, points, counts, blocked_days>>
        /\ pc' = "greedy"
        /\ cur' = cur + 1
    ]_vars

\* A date was left unassigned and a later date of the month was assigned.
C10_Witness ==
  \E d1, d2 \in DOMAIN out :
    /\ d1 < d2
    /\ DOMAIN out[d1] = {}
    /\ EligibleSet(d1) = {}
    /\ DOMAIN out[d2] # {}

\* A step of the greedy loop that handles date cur.
GreedyStep == pc = "greedy" /\ cur <= MonthLast(months[mi])

\* C11: on a holiday date with an eligible employee the greedy step does not
\* raise; it stores the chosen employee under HO in the schedule, records
\* the date in their assignments, increments their HO counter by one and
\* adds the HO weight to their points.
C11_HolidayDuty ==
  [][ (GreedyStep /\ cur \in holidays /\ EligibleSet(cur) # {}) =>
        /\ pc' # "raised"
        /\ cur \in DOMAIN out'
        /\ "HO" \in DOMAIN out'[cur]
        /\ LET c == out'[cur]["HO"]
           IN  /\ c \in EligibleSet(cur)
               /\ cur \in DOMAIN assignments'[c]
               /\ assignments'[c][cur] = "HO"
               /\ "HO" \in DOMAIN counts'[c]
               /\ counts'[c]["HO"] =
                    (IF "HO" \in DOMAIN counts[c] THEN counts[c]["HO"] ELSE 0) + 1
               /\ points'[c] = points[c] + Weight("HO")
    ]_vars

\* A date that is no holiday, no designated special date and no Thursday.
PlainDate(d) ==
  d \notin holidays /\ d \notin company_weekends /\ weekday(d) # 3

\* The employees whose current blocked set does not hold d: those eligible
\* for d when the greedy loop reached it.
Unblocked(d) == {e \in Employees : d \notin blocked_days[e]}

\* Every plain date of the schedule being built is served as a Weekend date
\* (a WE primary of weight 2.0 and, with a second eligible employee, a
\* Backup) if its weekday is in days, and as a Weekday date otherwise.
WeekendRule(days) ==
  \A d \in DOMAIN out :
    (PlainDate(d) /\ Unblocked(d) # {}) =>
      IF weekday(d) \in days
      THEN /\ "WE" \in DOMAIN out[d]
           /\ DOMAIN out[d] \subseteq {"WE", "B"}
           /\ d \in DOMAIN assignments[out[d]["WE"]]
           /\ WEIGHTS[assignments[out[d]["WE"]][d]] = 4
           /\ Cardinality(Unblocked(d)) >= 2 => "B" \in DOMAIN out[d]
      ELSE DOMAIN out[d] = {"WD"}

PriorityClass(d, t) ==
  /\ d \in holidays => t = "HO"
  /\ (d \notin holidays /\ d \in company_weekends) => t = "WE"
  /\ (d \notin holidays /\ d \notin company_weekends /\ weekday(d) = 3) => t = "Th"
  /\ PlainDate(d) => t \in {"WE", "WD"}

\* C13: classify_duty gives every date of the month being scheduled the one
\* duty type that the priority holiday > designated special date > Thursday
\* > weekend > weekday prescribes, from the date, the holiday lookup and the
\* special-date list alone; and every primary duty recorded for a date is of
\* that type.
C13_ClassifierPriority ==
  /\ \A d \in iter_month(months[mi]) :
       /\ classify_duty(d) \in {"HO", "WE", "Th", "WD"}
       /\ PriorityClass(d, classify_duty(d))
  /\ \A e \in Employees : \A d \in DOMAIN assignments[e] :
       assignments[e][d] # "B" => PriorityClass(d, assignments[e][d])

\* A designated special date that falls on a Thursday and is no holiday
\* was given a WE primary.
C13_Witness ==
  \E d \in DOMAIN out :
    /\ d \in company_weekends
    /\ weekday(d) = 3
    /\ d \notin holidays
    /\ "WE" \in DOMAIN out[d]

BackupOnlyWithWeekend(rec) == "B" \in DOMAIN rec => "WE" \in DOMAIN rec

\* C14: a date's record holds a B entry only if it holds a WE primary, in
\* the record being built, the schedule being built and every schedule
\* returned.
C14_BackupOnlyOnWeekend ==
  /\ BackupOnlyWithWeekend(day_rec)
  /\ \A d \in DOMAIN out : BackupOnlyWithWeekend(out[d])
  /\ \A m \in DOMAIN result : \A d \in DOMAIN result[m] :
       BackupOnlyWithWeekend(result[m][d])

\* A returned month has a Thursday with a Th primary alone although two
\* employees were free that day, and a date with a WE primary and a Backup.
C14_Witness ==
  /\ pc = "done"
  /\ \E m \in DOMAIN result :
       /\ \E d \in DOMAIN result[m] :
            /\ DOMAIN result[m][d] = {"Th"}
            /\ Cardinality({e \in Employees : d \notin prepare_for_month(e, m)}) >= 2
       /\ \E d \in DOMAIN result[m] : DOMAIN result[m][d] = {"WE", "B"}

\* C15: when exactly one employee is eligible for a date the greedy step
\* gives them the primary; on a Weekend date with one candidate the Backup
\* slot is left unassigned; so a roster of one unblocked employee gets the
\* primary of every date.
C15_SingleEligible ==
  [][ /\ (GreedyStep /\ Cardinality(EligibleSet(cur)) = 1) =>
           /\ pc' # "raised"
           /\ {p'} = EligibleSet(cur)
           /\ DOMAIN day_rec' = {classify_duty(cur)}
           /\ day_rec'[classify_duty(cur)] = p'
           /\ pc' = "greedy" => (cur \in DOMAIN out' /\ out'[cur] = day_rec')
      /\ (pc = "backup" /\ Range(cands) = {p}) =>
           /\ cur \in DOMAIN out'
           /\ DOMAIN out'[cur] = {"WE"}
           /\ out'[cur]["WE"] = p
    ]_vars

\* C16: assign_months resets the runtime state once, before the first
\* month; between the end of a month's balancing and the start of the next
\* month's greedy loop assignments, points and counters are left as they
\* are; and the months are taken in the order of the list.
C16_PeriodContinuity ==
  [][ /\ pc = "start" =>
           /\ assignments' = [e \in Employees |-> EmptyMap]
           /\ counts' = [e \in Employees |-> InitCounts]
           /\ points' = [e \in Employees |-> 0 - compensation'[e]]
           /\ mi' = 1
      /\ pc \in {"return", "month"} => UNCHANGED <<assignments, points, counts>>
      /\ pc = "month" =>
           /\ pc' \in {"greedy", "return"}
           /\ cur' = MonthFirst(months[mi])
           /\ DOMAIN result = {months[i] : i \in 1..(mi - 1)}
      /\ pc = "return" =>
           /\ DOMAIN result' = {months[i] : i \in 1..mi}
           /\ result'[months[mi]] = out
           /\ IF mi < Len(months) THEN pc' = "month" /\ mi' = mi + 1
                                  ELSE pc' = "done"
    ]_vars

\* The greedy loop of the second month of a list given in descending order
\* starts with an employee who holds duties of the first.
C16_Witness ==
  /\ pc = "greedy"
  /\ mi = 2
  /\ months[1] > months[2]
  /\ cur = MonthFirst(months[2])
  /\ \E e \in Employees :
       /\ DOMAIN assignments[e] # {}
       /\ DOMAIN assignments[e] \subseteq iter_month(months[1])
       /\ points[e] > 0

\* C17: before the first month every employee whose availability ratio is
\* strictly below 0.8 times the mean ratio has points -10 x (mean - own)
\* and every other employee has points 0; and between months points still
\* differ from the weights gained by that one reduction.
C17_AvailabilityCompensation ==
  pc = "month" =>
    \A e \in Employees :
      points[e] - CountedWeight(e) =
        (IF 10 * Len(roster) * AvailableDays(e) < 8 * SumAvailable
         THEN 0 - 20 * (SumAvailable - Len(roster) * AvailableDays(e))
         ELSE 0)

\* The derived blocked set of e for month m holds every date of m.
FullyBlocked(e, m) == iter_month(m) \subseteq prepare_for_month(e, m)

\* C18 as stated: when a month has been scheduled, an employee fully blocked
\* in it appears nowhere in its schedule, has no assignment in it, and has
\* the points they had at period start (after the reset and compensation).
C18_FullyBlockedKeepsPeriodStart ==
  pc = "return" =>
    \A e \in Employees :
      FullyBlocked(e, months[mi]) =>
        /\ \A d \in DOMAIN out : e \notin Range(out[d])
        /\ DOMAIN assignments[e] \cap iter_month(months[mi]) = {}
        /\ points[e] = 0 - compensation[e]

\* C18 as amended: no step of the scheduling of a month changes the points,
\* assignments or counters of an employee fully blocked in it, who appears
\* nowhere in the month's schedule and has no assignment in it.
C18_FullyBlockedUnchanged ==
  [][ \A e \in Employees :
        (pc \in {"greedy", "backup", "balance", "return"}
           /\ FullyBlocked(e, months[mi])) =>
          /\ points'[e] = points[e]
          /\ assignments'[e] = assignments[e]
          /\ counts'[e] = counts[e]
          /\ DOMAIN assignments'[e] \cap iter_month(months[mi]) = {}
          /\ \A d \in DOMAIN out' : e \notin Range(out'[d])
    ]_vars

\* A month was scheduled in which a fully blocked employee, who holds duties
\* of an earlier month, got nothing while others got duties.
C18_Witness ==
  /\ pc = "return"
  /\ \E e \in Employees :
       /\ FullyBlocked(e, months[mi])
       /\ DOMAIN assignments[e] # {}
       /\ \E d \in DOMAIN out : DOMAIN out[d] # {}

\* C19: with no employees neither phase runs, every month's schedule is
\* empty, and assign_months returns an empty schedule under every requested
\* month.
C19_EmptyRoster ==
  roster = <<>> =>
    /\ pc \in {"start", "month", "return", "done", "summarized"}
    /\ out = EmptyMap
    /\ \A m \in DOMAIN result : result[m] = EmptyMap
    /\ pc \in {"done", "summarized"} => DOMAIN result = Range(months)

\* assign_months returned for an empty roster and two months.
C19_Witness ==
  /\ roster = <<>>
  /\ pc = "done"
  /\ Len(months) = 2
  /\ DOMAIN result = Range(months)

\* C20: for a non-empty roster summarize_period returns one row per
\* employee, in roster order, with the employee's counter of each of the
\* five duty types and their points as Total, and then a TOTAL row with the
\* sums.
C20_Summary ==
  [][ (pc = "done" /\ roster # <<>>) =>
        /\ pc' = "summarized"
        /\ Len(summary') = Len(roster) + 1
        /\ \A i \in DOMAIN roster :
             /\ summary'[i].Employee = roster[i]
             /\ \A t \in SummaryDuties : summary'[i][t] = counts[roster[i]][t]
             /\ summary'[i].Total = Round3(points[roster[i]])
        /\ \A t \in SummaryDuties :
             summary'[Len(roster) + 1][t] =
               SumSet(Employees, [e \in Employees |-> counts[e][t]])
        /\ summary'[Len(roster) + 1].Total = Round3(SumSet(Employees, points))
    ]_vars

\* A raw range entry whose start and end are both valid dates.
WellFormedRange(rng) ==
  /\ {"start", "end"} \subseteq DOMAIN rng
  /\ rng.start \in AllDates
  /\ rng.end \in AllDates

\* Date d lies between the two ends of rng, whichever is the earlier.
Between(d, rng) ==
  \/ rng.start <= d /\ d <= rng.end
  \/ rng.end <= d /\ d <= rng.start

\* Date d is an explicit date of e or lies in a well-formed range of e.
InRawConstraint(e, d) ==
  \/ d \in raw[e].blocked_days
  \/ \E i \in DOMAIN raw[e].blocked_ranges :
       WellFormedRange(raw[e].blocked_ranges[i])
         /\ Between(d, raw[e].blocked_ranges[i])

\* The set the specification prescribes for employee e and target month m:
\* the explicit dates, the dates of the well-formed ranges, and for a
\* Sabbath observer the Fridays and Saturdays of month m.
DerivedSet(e, m) ==
  {d \in AllDates \cup raw[e].blocked_days :
     \/ InRawConstraint(e, d)
     \/ /\ raw[e].observes_sabbath
        /\ d \in iter_month(m)
        /\ weekday(d) \in {4, 5}}

\* C21: after prepare_for_month for a target month the employee's
\* blocked_days is exactly the explicit dates, the dates of every
\* well-formed range from one end to the other, and, if and only if the
\* employee observes Sabbath, the Fridays and Saturdays of the target month
\* (and of no other month); no other date is in the set.
C21_DerivedBlockedSet ==
  pc = "prepared" =>
    \A e \in Employees : blocked_days[e] = DerivedSet(e, months[mi])

\* A Sabbath observer with an explicit date and a well-formed range was
\* prepared for a month: a Friday of that month that is in no raw
\* constraint is blocked, and a Friday or Saturday of another month is not.
C21_Witness ==
  /\ pc = "prepared"
  /\ \E e \in Employees :
       /\ raw[e].observes_sabbath
       /\ raw[e].blocked_days # {}
       /\ \E i \in DOMAIN raw[e].blocked_ranges :
            WellFormedRange(raw[e].blocked_ranges[i])
       /\ \E d \in iter_month(months[mi]) :
            weekday(d) = 4 /\ d \in blocked_days[e]
              /\ ~ InRawConstraint(e, d)
       /\ \E d \in AllDates \ iter_month(months[mi]) :
            weekday(d) \in {4, 5} /\ d \notin blocked_days[e]

\* The Fridays and Saturdays of month m that no raw constraint of e holds.
SabbathOnly(e, m) ==
  {d \in iter_month(m) : weekday(d) \in {4, 5} /\ ~ InRawConstraint(e, d)}

\* C22: a call of prepare_for_month leaves the raw constraints, the
\* assignments, the points and the counters as they are; the set it
\* derives is the one prescribed for the target month whatever set an
\* earlier call left, so no Sabbath date of an earlier target month stays
\* in it; and a second call for the same month leaves the set as it is.
C22_PrepareIdempotent ==
  [][ pc' = "prepared" =>
        /\ UNCHANGED <<raw, assignments, points, counts>>
        /\ \A e \in Employees :
             /\ blocked_days'[e] = DerivedSet(e, months[mi'])
             /\ (pc = "prepared" /\ months[mi'] # months[mi]) =>
                  blocked_days'[e] \cap SabbathOnly(e, months[mi]) = {}
             /\ (pc = "prepared" /\ months[mi'] = months[mi]) =>
                  blocked_days'[e] = blocked_days[e]
    ]_vars

\* A Sabbath observer was prepared for one month and then for another: the
\* set holds the Sabbath dates of the second and none of the first.
C22_Witness ==
  /\ pc = "prepared"
  /\ mi = 2
  /\ months[1] # months[2]
  /\ \E e \in Employees :
       /\ raw[e].observes_sabbath
       /\ SabbathOnly(e, months[1]) # {}
       /\ SabbathOnly(e, months[2]) # {}
       /\ SabbathOnly(e, months[2]) \subseteq blocked_days[e]
       /\ SabbathOnly(e, months[1]) \cap blocked_days[e] = {}

\* C23: an employee whose raw range is given as (later date, earlier date)
\* gets from prepare_for_month the set that an employee with the same
\* record and the range given in order gets.
C23_RangeNormalization ==
  pc = "prepared" => blocked_days[roster[1]] = blocked_days[roster[2]]

\* The first employee, loaded with a range (b, a) with a < b that the second
\* holds as (a, b), was prepared, and all of a..b is blocked for both.
C23_Witness ==
  /\ pc = "prepared"
  /\ \E i \in DOMAIN raw[roster[1]].blocked_ranges :
       LET rng == raw[roster[1]].blocked_ranges[i]
       IN  /\ WellFormedRange(rng)
           /\ rng.end < rng.start
           /\ raw[roster[2]].blocked_ranges[i] = [start |-> rng.end, end |-> rng.start]
           /\ raw[roster[1]].blocked_days = {}
           /\ ~ raw[roster[1]].observes_sabbath
           /\ blocked_days[roster[1]] = rng.end..rng.start
           /\ blocked_days[roster[2]] = rng.end..rng.start

\* C24: prepare_for_month does not raise on a range entry whose start or
\* end is missing or is no valid date: the call completes, the entry adds
\* no date (the set is that of the same record without its malformed
\* entries), and the other ranges, the explicit dates and the Sabbath
\* dates are in the set.
C24_MalformedRangesSkipped ==
  /\ pc \in {"constructed", "prepared"}
  /\ pc = "prepared" =>
       /\ blocked_days[roster[1]] = blocked_days[roster[3]]
       /\ \A e \in Employees :
            /\ raw[e].blocked_days \subseteq blocked_days[e]
            /\ \A i \in DOMAIN raw[e].blocked_ranges :
                 LET rng == raw[e].blocked_ranges[i]
                 IN  WellFormedRange(rng) =>
                       \A d \in AllDates : Between(d, rng) => d \in blocked_days[e]
            /\ raw[e].observes_sabbath =>
                 \A d \in iter_month(months[mi]) :
                   weekday(d) \in {4, 5} => d \in blocked_days[e]

\* A Sabbath observer with an explicit date, a range entry whose start is a
\* valid date and whose end is missing or invalid, and a well-formed range
\* was prepared: the start of the malformed entry is not blocked.
C24_Witness ==
  /\ pc = "prepared"
  /\ raw[roster[1]].observes_sabbath
  /\ raw[roster[1]].blocked_days # {}
  /\ Len(raw[roster[1]].blocked_ranges) = 2
  /\ Len(raw[roster[3]].blocked_ranges) = 1
  /\ LET rng == raw[roster[1]].blocked_ranges[1]
     IN  /\ "start" \in DOMAIN rng
         /\ rng.start \in AllDates
         /\ ~ WellFormedRange(rng)
         /\ rng.start \notin blocked_days[roster[1]]

\* C25: the balancing loop makes at most max_iterations passes: every pass
\* that does not return is counted, the count never exceeds max_iterations,
\* and once max_iterations passes were made the phase returns the schedule
\* as it is; so with max_iterations = 0 the schedule is returned unchanged
\* and no employee's state is touched.
C25_BalancingTerminates ==
  [][ pc = "balance" =>
        /\ iter' <= max_iterations
        /\ pc' \in {"balance", "return"}
        /\ pc' = "balance" => iter' = iter + 1
        /\ iter >= max_iterations =>
             /\ pc' = "return"
             /\ UNCHANGED <<out, assignments, points, counts, iter>>
    ]_vars

\* _optimize_balance returned a schedule with duties in it without making
\* a pass, because max_iterations is 0.
C25_Witness ==
  /\ pc = "return"
  /\ max_iterations = 0
  /\ iter = 0
  /\ \E d \in DOMAIN out : DOMAIN out[d] # {}

\* The month-local workload of e: its points now less its points when the
\* balancing phase started.
MonthLocal == [e \in Employees |-> points[e] - start_pts[e]]

\* e is above (sign = 1) or below (sign = -1) the mean month-local workload
\* by more than the tolerance divided by k.
OffMean(e, sign, k) ==
  sign * k * TOLERANCE_INV * (Len(roster) * MonthLocal[e] - SumSet(Employees, MonthLocal))
    > Len(roster) * PointUnit

\* The over-loaded and the under-loaded employees of a pass: by the
\* tolerance, or by a third of it when the tolerance leaves either set
\* empty.
Loaded(sign) ==
  IF /\ \E e \in Employees : OffMean(e, 1, 1)
     /\ \E e \in Employees : OffMean(e, -1, 1)
  THEN {e \in Employees : OffMean(e, sign, 1)}
  ELSE IF /\ \E e \in Employees : OffMean(e, 1, 3)
          /\ \E e \in Employees : OffMean(e, -1, 3)
  THEN {e \in Employees : OffMean(e, sign, 3)}
  ELSE {}

\* The moves <<o, d, t, u>> of one holding (duty t of date d) of an
\* over-loaded o to an under-loaded u who is not blocked on d and holds
\* nothing on d, that bring the sum of squared deviation of the month-local
\* workloads strictly below its value before the pass.
ImprovingMoves ==
  {mv \in Loaded(1) \X (DOMAIN out) \X (DOMAIN WEIGHTS) \X Loaded(-1) :
     LET o == mv[1]
         d == mv[2]
         t == mv[3]
         u == mv[4]
     IN  /\ t \in DOMAIN out[d]
         /\ out[d][t] = o
         /\ d \notin blocked_days[u]
         /\ u \notin Range(out[d])
         /\ d \notin DOMAIN assignments[u]
         /\ SSE([MonthLocal EXCEPT ![o] = @ - Weight(t), ![u] = @ + Weight(t)])
              < SSE(MonthLocal)}

\* The step is the move mv and nothing else: the schedule entry names the
\* target, the source loses the duty (assignment, counter, weight) and the
\* target gets it.
MoveExecuted(mv) ==
  LET o == mv[1]
      d == mv[2]
      t == mv[3]
      u == mv[4]
  IN  /\ out' = [out EXCEPT ![d][t] = u]
      /\ d \notin DOMAIN assignments'[o]
      /\ d \in DOMAIN assignments'[u]
      /\ assignments'[u][d] = t
      /\ counts' = [counts EXCEPT ![o][t] = @ - 1, ![u][t] = @ + 1]
      /\ points' = [points EXCEPT ![o] = @ - Weight(t), ![u] = @ + Weight(t)]

MonthGain(e) ==
  SumSet(DOMAIN assignments[e] \cap iter_month(months[mi]),
         [d \in DOMAIN assignments[e] |-> Weight(assignments[e][d])])

\* The month being built has no holiday, no employee has a blocked date in
\* it, and all employees started it with equal points.
EvenStart ==
  /\ holidays \cap iter_month(months[mi]) = {}
  /\ \A e \in Employees : blocked_days[e] \cap iter_month(months[mi]) = {}
  /\ \A e1, e2 \in Employees :
       points[e1] - MonthGain(e1) = points[e2] - MonthGain(e2)

\* C27: in a month without holidays in which no employee has a blocked date
\* and which all employees started with equal points, after every date the
\* greedy loop has processed, and when the month is returned, the highest
\* and the lowest employee points differ by at most one Weekend weight.
C27_BoundedSpread ==
  (pc \in {"greedy", "balance", "return"} /\ EvenStart) =>
    \A e1, e2 \in Employees : points[e1] - points[e2] <= Weight("WE")

\* The greedy loop has processed some dates of such a month, one of them
\* with a Backup, and two employees are a full Weekend weight apart.
C27_Witness ==
  /\ pc = "greedy"
  /\ EvenStart
  /\ Len(roster) >= 2
  /\ \E d \in DOMAIN out : "B" \in DOMAIN out[d]
  /\ \E e1, e2 \in Employees : points[e1] - points[e2] = Weight("WE")

\* ------------------------------------------- claims on the manager's calls
\* A date string names a calendar date.
IsoDate(d) == d \in ManagerDates

\* The dicts of that name in a list of employee dicts.
Named(emps, n) == {i \in DOMAIN emps : emps[i].name = n}

\* The date strings a dict holds in blocked_days.
DaysOf(emp) == IF "blocked_days" \in DOMAIN emp THEN emp.blocked_days ELSE <<>>

\* The ranges a dict holds in blocked_ranges.
RangesOf(emp) == IF "blocked_ranges" \in DOMAIN emp THEN emp.blocked_ranges ELSE <<>>

\* How often x occurs in the list s.
Occurrences(s, x) == Cardinality({i \in DOMAIN s : s[i] = x})

\* The step is the call op of the manager.
IsCall(op) == calls' = calls + 1 /\ call'.op = op

\* C28: add_blocked_day for a date that is already in the employee's
\* blocked_days list returns True, and the list still contains that date
\* exactly once.
C28_DuplicateBlockedDay ==
  [][ (/\ IsCall("add_blocked_day")
       /\ \E i \in Named(employees, call'.employee_name) :
            call'.blocked_date \in Range(DaysOf(employees[i])))
      => /\ returned' = TRUE
         /\ \A i \in Named(employees', call'.employee_name) :
              Occurrences(DaysOf(employees'[i]), call'.blocked_date) = 1 ]_vars

\* C29: add_blocked_range with two valid dates for a known employee returns
\* True and stores {start: the earlier date, end: the later date} at the end
\* of the employee's ranges, also when the later date is passed first; and
\* every range held after add_blocked_range calls, in memory and in the
\* saved file, has start <= end.
C29_StoredRangesOrdered ==
  [][ (/\ IsCall("add_blocked_range")
       /\ IsoDate(call'.start_date) /\ IsoDate(call'.end_date)
       /\ Named(employees, call'.employee_name) # {})
      => /\ returned' = TRUE
         /\ \E i \in Named(employees, call'.employee_name) :
              LET earlier == IF call'.start_date <= call'.end_date
                             THEN call'.start_date ELSE call'.end_date
                  later == IF call'.start_date <= call'.end_date
                           THEN call'.end_date ELSE call'.start_date
              IN  /\ RangesOf(employees'[i]) =
                       Append(RangesOf(employees[i]), [start |-> earlier, end |-> later])
                  /\ \A j \in DOMAIN employees : j # i => employees'[j] = employees[j]
         /\ employees_file' = employees'
         /\ \A i \in DOMAIN employees' :
              \A k \in DOMAIN RangesOf(employees'[i]) :
                RangesOf(employees'[i])[k].start <= RangesOf(employees'[i])[k].end ]_vars

\* The later date was passed first, and the range stored last for that
\* employee runs from the earlier date to the later one.
C29_Witness ==
  /\ calls > 0
  /\ call.op = "add_blocked_range"
  /\ IsoDate(call.start_date) /\ IsoDate(call.end_date)
  /\ call.start_date > call.end_date
  /\ call.employee_name = "Bob"
  /\ returned
  /\ \E i \in Named(employees, "Bob") :
       /\ RangesOf(employees[i]) # <<>>
       /\ RangesOf(employees[i])[Len(RangesOf(employees[i]))] =
            [start |-> call.end_date, end |-> call.start_date]
  /\ employees_file = employees

\* The call is one the manager rejects: an add with a date string that is
\* no ISO date or with an unknown name, or a remove_blocked_day of a date
\* the employee does not hold.
Rejected(c) ==
  \/ /\ c.op = "add_blocked_day"
     /\ \/ ~IsoDate(c.blocked_date)
        \/ Named(employees, c.employee_name) = {}
  \/ /\ c.op = "add_blocked_range"
     /\ \/ ~IsoDate(c.start_date)
        \/ ~IsoDate(c.end_date)
        \/ Named(employees, c.employee_name) = {}
  \/ /\ c.op = "remove_blocked_day"
     /\ \A i \in Named(employees, c.employee_name) :
          c.blocked_date \notin Range(DaysOf(employees[i]))

\* C30: a rejected call returns False and leaves every employee record and
\* the saved file unchanged.
C30_RejectedInputsChangeNothing ==
  [][ (calls' = calls + 1 /\ Rejected(call'))
      => /\ returned' = FALSE
         /\ employees' = employees
         /\ employees_file' = employees_file ]_vars

\* An add_blocked_range with an invalid start date for a known employee was
\* rejected after an earlier call had stored something.
C30_Witness ==
  /\ calls >= 2
  /\ call.op = "add_blocked_range"
  /\ call.employee_name = "Alice"
  /\ ~IsoDate(call.start_date) /\ IsoDate(call.end_date)
  /\ ~returned
  /\ employees_file = employees
  /\ employees \notin EmployeeFiles

\* ------------------------------------ claims on what the balancing balances
\* The sum of the weights of the duties the schedule being built gives e.
HeldWeight(e) ==
  SumSet(DOMAIN out,
    [d \in DOMAIN out |->
       SumSet({t \in DOMAIN out[d] : out[d][t] = e},
              [t \in DOMAIN out[d] |-> Weight(t)])])

\* C31: the workload _optimize_balance balances (month_points) is, for every
\* employee, the sum of the weights of the duties that employee holds in
\* the schedule of the month being optimized.
C31_MonthLocalPoints ==
  pc = "balance" => \A e \in Employees : month_points(e) = HeldWeight(e)

\* The workloads of the month: what each employee holds in its schedule.
HeldWeights == [e \in Employees |-> HeldWeight(e)]

\* The relocations <<o, d, t, u>> of one holding (duty t of date d) from o
\* to an employee u who is not blocked on d and holds nothing on d, that
\* strictly lower the month's sum of squared deviation.
Relocations ==
  {mv \in Employees \X (DOMAIN out) \X (DOMAIN WEIGHTS) \X Employees :
     LET o == mv[1]
         d == mv[2]
         t == mv[3]
         u == mv[4]
     IN  /\ t \in DOMAIN out[d]
         /\ out[d][t] = o
         /\ u # o
         /\ d \notin blocked_days[u]
         /\ u \notin Range(out[d])
         /\ d \notin DOMAIN assignments[u]
         /\ SSE([HeldWeights EXCEPT ![o] = @ - Weight(t), ![u] = @ + Weight(t)])
              < SSE(HeldWeights)}

\* C32: when the greedy schedule of a month admits a feasible relocation of
\* one holding that strictly lowers the month's sum of squared deviation,
\* the first pass of the balancing phase relocates a holding, so that the
\* schedule assign_month returns is not the greedy schedule.
C32_BalancingReducesImbalance ==
  [][ (pc = "balance" /\ iter = 0 /\ iter < max_iterations /\ Relocations # {})
        => out' # out ]_vars

\* The (date, duty type) slots a schedule fills.
Slots(sched) ==
  UNION {{<<d, t>> : t \in DOMAIN sched[d]} : d \in DOMAIN sched}

\* C33: a move of the balancing phase changes only assignee names: the
\* schedule fills the same (date, duty type) slots after it as before it,
\* and after it every date that has a primary still has it under the duty
\* type classify_duty returns for that date.
C33_BalancingKeepsSlots ==
  [][ pc = "balance" =>
        /\ Slots(out') = Slots(out)
        /\ \A d \in DOMAIN out' :
             out'[d] # EmptyMap => DOMAIN out'[d] \ {"B"} = {classify_duty(d)}
    ]_vars

\* Moves were made on a schedule that has a Weekend date with a Backup and
\* a Thursday, and some employee's points are no longer those the greedy
\* phase left.
C33_Witness ==
  /\ pc = "balance"
  /\ iter >= 1
  /\ \E e \in Employees : points[e] # start_pts[e]
  /\ \E d \in DOMAIN out : {"WE", "B"} \subseteq DOMAIN out[d]
  /\ \E d \in DOMAIN out : "Th" \in DOMAIN out[d]

\* The members of pool of least points.
MinSet(pool) == {e \in pool : \A o \in pool : points[e] <= points[o]}

\* _pick_lowest_points with a tolerance of 0: at_min holds the pool members
\* of least points only.
PickExact(candidates, duty_weight, exclude_names) ==
  LET pool == SelectSeq(candidates, LAMBDA e : e \notin exclude_names)
      at_min == SelectSeq(pool, LAMBDA e : e \in MinSet(Range(pool)))
  IN  IF pool = <<>> THEN {None}
      ELSE IF Len(at_min) > 1
           THEN _pick_best_for_balance(at_min, duty_weight)
           ELSE {at_min[1]}

\* C34 as stated: every pick is the first in roster order of the pool
\* members of least points.
C34_FirstAtMinimum ==
  [][ /\ PrimaryPick => p' = FirstInRoster(MinSet(EligibleSet(cur)))
      /\ BackupPick => day_rec'["B"] = FirstInRoster(MinSet(EligibleSet(cur) \ {p}))
    ]_vars

\* C34 as amended: every pick is a pool member of least points, never one
\* that is only within the tolerance of the minimum, and the first of them
\* in roster order whenever the float variances are exact; and what
\* _pick_lowest_points can return is what it can return with tolerance 0.
C34_MinimumPointsPick ==
  [][ /\ PrimaryPick =>
           /\ p' \in MinSet(EligibleSet(cur))
           /\ FloatExact => p' = FirstInRoster(MinSet(EligibleSet(cur)))
      /\ BackupPick =>
           /\ day_rec'["B"] \in MinSet(EligibleSet(cur) \ {p})
           /\ FloatExact => day_rec'["B"] = FirstInRoster(MinSet(EligibleSet(cur) \ {p}))
      /\ (pc = "greedy" /\ cur <= MonthLast(months[mi])) =>
           _pick_lowest_points(_eligible(cur), Weight(classify_duty(cur)), {})
             = PickExact(_eligible(cur), Weight(classify_duty(cur)), {})
      /\ pc = "backup" =>
           _pick_lowest_points(cands, Weight("B"), {p}) = PickExact(cands, Weight("B"), {p})
    ]_vars

\* The date before cur went to p, who had the least points, although an
\* eligible employee earlier in the roster had more points within the
\* tolerance.
C34_Witness ==
  /\ pc = "greedy"
  /\ p # None
  /\ (cur - 1) \in DOMAIN out
  /\ LET t == classify_duty(cur - 1)
         before == points[p] - Weight(t)
     IN  /\ out[cur - 1] = (t :> p)
         /\ \E i, j \in DOMAIN roster :
              /\ i < j
              /\ roster[j] = p
              /\ roster[i] \in Range(cands)
              /\ points[roster[i]] > before
              /\ TOLERANCE_INV * points[roster[i]] <= TOLERANCE_INV * before + PointUnit

\* The schedules that exist: those returned for the months built so far,
\* the one being built, and the record of the date being filled.
Schedules ==
  {out} \cup {result[m] : m \in DOMAIN result}
    \cup (IF pc = "backup" THEN {(cur :> day_rec)} ELSE {})

\* A schedule names e under duty type t on date d.
Held(e, d, t) ==
  \E sched \in Schedules :
    /\ d \in DOMAIN sched
    /\ t \in DOMAIN sched[d]
    /\ sched[d][t] = e

\* C35: for every employee every duty type of the assignments map has a
\* counter, every counter is the number of dates the map gives that duty
\* type and is not negative, and the map holds duty t on date d exactly
\* when a schedule names the employee under t on d.
C35_CounterConsistency ==
  pc # "start" =>
    \A e \in Employees :
      /\ \A d \in DOMAIN assignments[e] : assignments[e][d] \in DOMAIN counts[e]
      /\ \A t \in DOMAIN counts[e] :
           /\ counts[e][t] = Cardinality({d \in DOMAIN assignments[e] : assignments[e][d] = t})
           /\ counts[e][t] >= 0
      /\ \A d \in AllDates : \A t \in DOMAIN WEIGHTS :
           (d \in DOMAIN assignments[e] /\ assignments[e][d] = t) <=> Held(e, d, t)

\* Every employee of the roster is blocked on date d.
AllBlocked(d) == \A e \in Employees : d \in blocked_days[e]

\* C36: for a non-empty roster the greedy loop fills the schedule in
\* increasing date order, so that its keys are the dates of the month
\* before the date being filled; the schedule that goes through balancing and
\* is returned has a key for each date of the month and no other; and a
\* date on which no employee is eligible is a key with an empty record.
C36_EveryDatePresent ==
  roster # <<>> =>
    /\ pc \in {"greedy", "backup"} =>
         DOMAIN out = {d \in iter_month(months[mi]) : d < cur}
    /\ pc \in {"balance", "return"} => DOMAIN out = iter_month(months[mi])
    /\ \A m \in DOMAIN result : DOMAIN result[m] = iter_month(m)
    /\ pc \in {"greedy", "backup", "balance", "return"} =>
         \A d \in DOMAIN out : AllBlocked(d) => out[d] = EmptyMap

\* A month is returned in which a date on which every employee is blocked
\* has an empty record and a later date has a primary.
C36_Witness ==
  /\ pc = "return"
  /\ roster # <<>>
  /\ DOMAIN out = iter_month(months[mi])
  /\ \E d1, d2 \in DOMAIN out :
       /\ d1 < d2
       /\ AllBlocked(d1)
       /\ out[d1] = EmptyMap
       /\ out[d2] # EmptyMap

\* The dates of the month that are keys of a blocked calendar.
CalendarDates(blocked_calendar, month) ==
  {MonthFirst(month) + day - 1 : day \in DOMAIN blocked_calendar}

\* C37: for every employee record and month, get_blocked_calendar returns
\* a calendar whose days are the dates of that month in the derived blocked
\* set prepare_for_month builds from the same record.
C37_BlockedCalendarAgreement ==
  (calls > 0 /\ call.op = "get_blocked_calendar" /\ call.employee_name \in Employees) =>
    /\ returned.raised = ""
    /\ CalendarDates(returned.blocked_calendar, call.month)
         = prepare_for_month(call.employee_name, call.month) \cap iter_month(call.month)

\* No employee holds two duties on one date of sched.
OneDutyADay(sched) ==
  \A d \in DOMAIN sched : \A t \in DOMAIN sched[d] : \A u \in DOMAIN sched[d] :
    sched[d][t] = sched[d][u] => t = u

\* The step is an execute_swap call.
SwapCalled == calls' = calls + 1 /\ call'.op = "execute_swap"

\* The assignee the swap c leaves in slot (d, t) of the schedule.
AfterExchange(c, d, t) ==
  IF d = c.date1 /\ t = c.duty1 THEN schedule[c.date2][c.duty2]
  ELSE IF d = c.date2 /\ t = c.duty2 THEN schedule[c.date1][c.duty1]
  ELSE schedule[d][t]

\* C38: a ManualSwapManager constructed on a schedule in which no employee
\* holds two duties on one date never holds a schedule in which one does,
\* whatever execute_swap calls are made; and an execute_swap call that
\* returns success leaves every date and every duty type of the schedule
\* in place, puts each of the two named assignees in the slot of the other
\* and changes no other entry.
C38_ManualSwapNoDoubleBooking ==
  /\ []OneDutyADay(schedule)
  /\ [][ (SwapCalled /\ "success" \in DOMAIN returned') =>
           /\ DOMAIN schedule' = DOMAIN schedule
           /\ \A d \in DOMAIN schedule :
                /\ DOMAIN schedule'[d] = DOMAIN schedule[d]
                /\ \A t \in DOMAIN schedule[d] :
                     schedule'[d][t] = AfterExchange(call', d, t) ]_vars

\* Two swaps were executed one after the other.
C38_Witness ==
  /\ saves = 2
  /\ "success" \in DOMAIN returned
  /\ schedule \notin ScheduleFiles

\* The slot (d, t) of the schedule is unassigned.
Unassigned(d, t) == d \notin DOMAIN schedule \/ t \notin DOMAIN schedule[d]

\* Employee e holds a duty on date d of the schedule.
HoldsDutyOn(e, d) ==
  d \in DOMAIN schedule /\ \E t \in DOMAIN schedule[d] : schedule[d][t] = e

\* The swap c names an unassigned slot, or one of its two employees holds
\* a duty on the date of the other already.
MustBeRejected(c) ==
  \/ Unassigned(c.date1, c.duty1)
  \/ Unassigned(c.date2, c.duty2)
  \/ HoldsDutyOn(schedule[c.date2][c.duty2], c.date1)
  \/ HoldsDutyOn(schedule[c.date1][c.duty1], c.date2)

\* The value is the invalid result of propose_swap, with an error.
InvalidResult(r) ==
  /\ DOMAIN r = {"valid", "error"}
  /\ r.valid = FALSE
  /\ r.error # <<>>

\* C39: an execute_swap call that names an unassigned slot, or a swap one
\* of whose employees holds a duty on the other date already, returns the
\* invalid result with an error, leaves the schedule as it was, does not
\* save the schedule file and prepares no notification.
C39_RejectedSwapChangesNothing ==
  [][ (SwapCalled /\ MustBeRejected(call')) =>
        /\ InvalidResult(returned')
        /\ schedule' = schedule
        /\ schedule_file' = schedule_file
        /\ saves' = saves
        /\ notified' = notified ]_vars

\* A swap was rejected for both conflicts after another was executed.
C39_Witness ==
  /\ saves > 0
  /\ calls > saves
  /\ InvalidResult(returned)
  /\ Len(returned.error) = 2
  /\ schedule_file = schedule

====
